---------------------------- MODULE Spec2Model ----------------------------
(* Model of the template engine of FernandoVT10/blog-rewrite:             *)
(*   Lexer.scanTokens -> Parser.parse -> Compiler.compileFile -> render   *)
(* A JavaScript string is a sequence of one-character strings, so that    *)
(* slicing, concatenation and String() are computed, not assumed.         *)
EXTENDS Integers, Sequences, FiniteSets, TLC

VARIABLES
  file,        \* the text of the template file read (by the last call to return)
  data,        \* the data context the caller renders the view with
  pc,          \* position of compileFile: "start", "reading", "compiled"
  buffer,      \* Compiler.buffer
  hadErrors,   \* Compiler.hadErrors
  logged,      \* the diagnostics handed to logger.error, in order
  tokens,      \* the tokens returned by Lexer.scanTokens
  scanEnd,     \* Lexer.current when scanTokens returned
  statements,  \* the statements returned by Parser.parse
  cursor,      \* Parser.cursor when parse returned
  view,        \* what compileFile returned: NoView (null) or a render function
  result,      \* outcome of the last call of the render function
  calls,       \* number of calls of the render function so far
  pending,     \* the compileFile calls suspended at their await
  returned     \* what the compileFile calls returned, in the order of return

vars == <<file, data, pc, buffer, hadErrors, logged, tokens, scanEnd, statements,
          cursor, view, result, calls, pending, returned>>

(***************************************************************************)
(* Characters                                                              *)
(***************************************************************************)
NL == "\n"
QUOTE == "\""
\* what buffer[i] yields past the end of the string
UNDEF_CHAR == "undefined"

Digits == <<"0", "1", "2", "3", "4", "5", "6", "7", "8", "9">>
DigitSet == {Digits[i] : i \in 1..10}
LetterSet == {"a","b","c","d","e","f","g","h","i","j","k","l","m","n","o","p",
              "q","r","s","t","u","v","w","x","y","z",
              "A","B","C","D","E","F","G","H","I","J","K","L","M","N","O","P",
              "Q","R","S","T","U","V","W","X","Y","Z"}

\* /[0-9]/.test(c)
IsDigit(c) == c \in DigitSet
\* /[A-Za-z$_]/.test(c)
IsIdentStart(c) == c \in LetterSet \cup {"$", "_"}
\* /[A-Za-z$_0-9]/.test(c); the text "undefined" matches it as well
IsIdentChar(c) == c \in LetterSet \cup DigitSet \cup {"$", "_"} \/ c = UNDEF_CHAR

Min(a, b) == IF a < b THEN a ELSE b

\* String.prototype.slice(a, b) for 0 <= a
Slice(s, a, b) == SubSeq(s, a + 1, Min(b, Len(s)))

(***************************************************************************)
(* Lexer (Lexer.ts).  L is the record of the Lexer's fields; L.compiler is *)
(* the state of the Compiler it reports to.                                *)
(***************************************************************************)
\* variant: the line counter goes on from the diagnostics reported so far
NewLexerCountingOn(comp) ==
  [start |-> 0, current |-> 0, colStart |-> 1, colCurrent |-> 1,
   line |-> 1 + Len(comp.logged), tokens |-> <<>>, compiler |-> comp]

NewLexer(comp) ==
  [start |-> 0, current |-> 0, colStart |-> 1, colCurrent |-> 1, line |-> 1,
   tokens |-> <<>>, compiler |-> comp]

Keywords == (<<"i","f">> :> "IF") @@ (<<"e","n","d","i","f">> :> "ENDIF")
         @@ (<<"f","o","r">> :> "FOR") @@ (<<"e","n","d","f","o","r">> :> "ENDFOR")
         @@ (<<"i","n">> :> "IN")

LexIsAtTheEnd(buf, L) == L.current >= Len(buf)

LexPeek(buf, L) == IF L.current < Len(buf) THEN buf[L.current + 1] ELSE UNDEF_CHAR

\* the state after advance(); the character returned is LexPeek of the state before
LexAdvance(buf, L) ==
  LET nl == LexPeek(buf, L) = NL IN
  [L EXCEPT !.colCurrent = IF nl THEN 1 ELSE @ + 1,
            !.colStart = IF nl THEN 1 ELSE @,
            !.line = IF nl THEN @ + 1 ELSE @,
            !.current = @ + 1]

AddTokenLexeme(L, type, lexeme) ==
  [L EXCEPT !.tokens = Append(@, [type |-> type, lexeme |-> lexeme, line |-> L.line,
                                  col |-> <<L.colStart, L.colCurrent>>]),
            !.start = L.current,
            !.colStart = L.colCurrent]

AddToken(buf, L, type) == AddTokenLexeme(L, type, Slice(buf, L.start, L.current))

\* variant: the diagnostic is logged and the compilation not marked as failed
SyntaxErrorLogOnly(comp, message, line, col) ==
  [logged |-> Append(comp.logged, [message |-> message, line |-> line, col |-> col]),
   hadErrors |-> comp.hadErrors]

\* Compiler.syntaxError on the Compiler fields comp = [logged, hadErrors]: the
\* diagnostic goes to logger.error and hadErrors is set.  col is <<c>> for a
\* single column and <<start, end>> for a range.
SyntaxError(comp, message, line, col) ==
  [logged |-> Append(comp.logged, [message |-> message, line |-> line, col |-> col]),
   hadErrors |-> TRUE]

LexError(L, message, line, col) ==
  [L EXCEPT !.compiler = SyntaxError(@, message, line, col),
            !.start = L.current,
            !.colStart = L.colCurrent]

RECURSIVE IdentLoop(_, _)
IdentLoop(buf, L) ==
  IF IsIdentChar(LexPeek(buf, L)) /\ ~LexIsAtTheEnd(buf, L)
  THEN IdentLoop(buf, LexAdvance(buf, L))
  ELSE L

\* L is the state after the loop of identifier()
IdentifierToken(buf, L) ==
  IF Slice(buf, L.start, L.current) \in DOMAIN Keywords
  THEN AddToken(buf, L, Keywords[Slice(buf, L.start, L.current)])
  ELSE AddToken(buf, L, "IDENTIFIER")

LexIdentifier(buf, L) == IdentifierToken(buf, IdentLoop(buf, L))

RECURSIVE NumberLoop(_, _)
NumberLoop(buf, L) ==
  IF IsDigit(LexPeek(buf, L)) /\ ~LexIsAtTheEnd(buf, L)
  THEN NumberLoop(buf, LexAdvance(buf, L))
  ELSE L

LexNumber(buf, L) == AddToken(buf, NumberLoop(buf, L), "NUMBER")

RECURSIVE StringLoopAcrossLines(_, _)
\* variant: the string runs on over newlines, up to a quote or the end
StringLoopAcrossLines(buf, L) ==
  IF LexPeek(buf, L) # QUOTE /\ ~LexIsAtTheEnd(buf, L)
  THEN StringLoopAcrossLines(buf, LexAdvance(buf, L))
  ELSE L

RECURSIVE StringLoop(_, _)
StringLoop(buf, L) ==
  IF LexPeek(buf, L) # QUOTE /\ LexPeek(buf, L) # NL /\ ~LexIsAtTheEnd(buf, L)
  THEN StringLoop(buf, LexAdvance(buf, L))
  ELSE L

\* L is the state after the closing quote was matched or found missing
StringToken(buf, L) ==
  AddTokenLexeme(L, "STRING", Slice(buf, L.start + 1, L.current - 1))

\* L is the state after the loop of string()
StringClose(buf, L) ==
  IF LexPeek(buf, L) = QUOTE THEN StringToken(buf, LexAdvance(buf, L))
  ELSE StringToken(buf, LexError(L, "Missing terminating \" character", L.line,
                                 <<L.colStart, L.colCurrent>>))

LexString(buf, L) == StringClose(buf, StringLoop(buf, L))

\* "!", ">", "<": a second "=" selects the two-character token
LexOneOrTwo(buf, L, two, one) ==
  IF LexPeek(buf, L) = "=" THEN AddToken(buf, LexAdvance(buf, L), two)
  ELSE AddToken(buf, L, one)

\* the error branch of "=", "&", "|": L is the state after the extra advance()
DoubleError(L, message) == LexError(L, message, L.line, <<L.colCurrent - 1>>)

\* "=", "&", "|": the character must be doubled
LexDouble(buf, L, c, type, message) ==
  IF LexPeek(buf, L) = c THEN AddToken(buf, LexAdvance(buf, L), type)
  ELSE DoubleError(LexAdvance(buf, L), message)

\* one iteration of the switch of scanExpr; L is the state after c = advance()
ScanExprChar(buf, L, c) ==
  CASE c = "." -> AddToken(buf, L, "DOT")
    [] c = "[" -> AddToken(buf, L, "OPEN_BRACKET")
    [] c = "]" -> AddToken(buf, L, "CLOSE_BRACKET")
    [] c = "(" -> AddToken(buf, L, "OPEN_PAREN")
    [] c = ")" -> AddToken(buf, L, "CLOSE_PAREN")
    [] c = "!" -> LexOneOrTwo(buf, L, "BANG_EQUAL", "BANG")
    [] c = "=" -> LexDouble(buf, L, "=", "DOUBLE_EQUAL", "Expected character \"=\"")
    [] c = ">" -> LexOneOrTwo(buf, L, "GREATHER_OR_EQ", "GREATHER")
    [] c = "<" -> LexOneOrTwo(buf, L, "LESS_OR_EQ", "LESS")
    [] c = QUOTE -> LexString(buf, L)
    [] c = "&" -> LexDouble(buf, L, "&", "DOUBLE_AND", "Expected character \"&\"")
    [] c = "|" -> LexDouble(buf, L, "|", "OR", "Expected character \"|\"")
    [] c = " " -> [L EXCEPT !.start = L.current, !.colStart = L.colCurrent]
    [] OTHER -> IF IsDigit(c) THEN LexNumber(buf, L)
                ELSE IF IsIdentStart(c) THEN LexIdentifier(buf, L)
                ELSE LexError(L, "Unexpected character", L.line, <<L.colCurrent - 1>>)

RECURSIVE ScanExprLoop(_, _)
ScanExprLoop(buf, L) ==
  IF LexPeek(buf, L) # "}" /\ LexPeek(buf, L) # NL /\ ~LexIsAtTheEnd(buf, L)
  THEN ScanExprLoop(buf, ScanExprChar(buf, LexAdvance(buf, L), LexPeek(buf, L)))
  ELSE L

\* L is the state after the first match("}") succeeded
ScanExprSecondBrace(buf, L) ==
  IF LexPeek(buf, L) = "}" THEN AddToken(buf, LexAdvance(buf, L), "CLOSE_EXPR") ELSE L

\* L is the state after the loop of scanExpr: match("}") && match("}")
ScanExprClose(buf, L) ==
  IF LexPeek(buf, L) = "}" THEN ScanExprSecondBrace(buf, LexAdvance(buf, L)) ELSE L

ScanExpr(buf, L) == ScanExprClose(buf, ScanExprLoop(buf, L))

RECURSIVE ScanLiteralLoop(_, _)
ScanLiteralLoop(buf, L) ==
  IF LexPeek(buf, L) # "{" /\ ~LexIsAtTheEnd(buf, L)
  THEN ScanLiteralLoop(buf, LexAdvance(buf, L))
  ELSE L

\* variant: the run starts at the cursor, after the character scanTokens consumed
ScanLiteralFromCursor(buf, L) ==
  AddToken(buf, ScanLiteralLoop(buf, [L EXCEPT !.start = L.current]), "LITERAL")

ScanLiteral(buf, L) == AddToken(buf, ScanLiteralLoop(buf, L), "LITERAL")

RECURSIVE ScanLoop(_, _)

\* the body of the loop of scanTokens; L is the state after c = advance()
ScanStep(buf, L, c) ==
  IF c = "{" /\ LexPeek(buf, L) = "{"
  THEN ScanLoop(buf, ScanExpr(buf, AddToken(buf, LexAdvance(buf, L), "OPEN_EXPR")))
  ELSE ScanLoop(buf, ScanLiteral(buf, L))

ScanLoop(buf, L) ==
  IF LexIsAtTheEnd(buf, L) THEN L ELSE ScanStep(buf, LexAdvance(buf, L), LexPeek(buf, L))

\* variant: the token sequence is closed by two EOF tokens
ScanTokensEofTwice(buf, comp) ==
  AddToken(buf, AddToken(buf, ScanLoop(buf, NewLexer(comp)), "EOF"), "EOF")

\* new Lexer(buf, comp).scanTokens(): the final Lexer state
scanTokens(buf, comp) == AddToken(buf, ScanLoop(buf, NewLexer(comp)), "EOF")

(***************************************************************************)
(* Parser (Parser.ts, lines 1-287).  The cursor c is 0-based as in the     *)
(* code; d is the state of the Compiler the parser reports to.  A method   *)
(* that may throw returns [ok, node, c, d]; ok = FALSE is the thrown Error.*)
(***************************************************************************)
NullNode == [type |-> "NULL"]

TokenAndOperators ==
  [t \in {"DOUBLE_EQUAL", "BANG_EQUAL", "GREATHER", "LESS", "GREATHER_OR_EQ",
          "LESS_OR_EQ", "DOUBLE_AND", "OR"} |->
     CASE t = "DOUBLE_EQUAL" -> "EQUAL"
       [] t = "BANG_EQUAL" -> "NOT_EQUAL"
       [] t = "GREATHER" -> "GREATHER"
       [] t = "LESS" -> "LESS"
       [] t = "GREATHER_OR_EQ" -> "GREATHER_OR_EQ"
       [] t = "LESS_OR_EQ" -> "LESS_OR_EQ"
       [] t = "DOUBLE_AND" -> "AND"
       [] t = "OR" -> "OR"]

\* tokens[cursor]; a cursor past the array reads undefined
UndefToken == [type |-> "undefined", lexeme |-> <<>>, line |-> 0, col |-> <<0, 0>>]
ParPeek(tk, c) == IF c < Len(tk) THEN tk[c + 1] ELSE UndefToken

ParIsAtTheEnd(tk, c) == ParPeek(tk, c).type = "EOF"

IsNext(tk, c, type, offset) ==
  IF c + offset >= Len(tk) THEN FALSE ELSE tk[c + offset + 1].type = type

\* match(type): TRUE iff the cursor advances by one
ParMatch(tk, c, type) == ~ParIsAtTheEnd(tk, c) /\ IsNext(tk, c, type, 0)

ParPrev(tk, c) == tk[(IF c > 0 THEN c - 1 ELSE 0) + 1]

ParError(d, token, message) == SyntaxError(d, message, token.line, token.col)

\* variant: the marker is set at the start of the token
ErrorAtStart(d, token, message) == SyntaxError(d, message, token.line, <<token.col[1]>>)

\* sets the marker of the error after the token
ErrorAfter(d, token, message) == SyntaxError(d, message, token.line, <<token.col[2]>>)

Thrown(c, d) == [ok |-> FALSE, node |-> NullNode, c |-> c, d |-> d]
Returned(node, c, d) == [ok |-> TRUE, node |-> node, c |-> c, d |-> d]

\* consume(type, message); on success node is the consumed token
Consume(tk, c, d, type, message) ==
  IF ParMatch(tk, c, type) THEN Returned(tk[c + 1], c + 1, d)
  ELSE Thrown(c, ErrorAfter(d, ParPrev(tk, c), message))

RECURSIVE DigitsValue(_)
\* parseInt of a run of decimal digits
DigitsValue(ds) ==
  IF ds = <<>> THEN 0
  ELSE 10 * DigitsValue(SubSeq(ds, 1, Len(ds) - 1))
       + (CHOOSE i \in 0..9 : Digits[i + 1] = ds[Len(ds)])

\* Each method is written as a chain of stages, one per statement that may
\* throw; r is the outcome of the statement before the stage.
RECURSIVE VariableLoop(_, _, _, _)

VariableAfterClose(tk, keys, r) ==
  IF r.ok THEN VariableLoop(tk, r.c, r.d, keys) ELSE r

VariableAfterIndex(tk, keys, r) ==
  IF r.ok
  THEN VariableAfterClose(tk, Append(keys, r.node.lexeme),
                          Consume(tk, r.c, r.d, "CLOSE_BRACKET", "Expected \"]\" after index"))
  ELSE r

VariableAfterDot(tk, keys, r) ==
  IF r.ok THEN VariableLoop(tk, r.c, r.d, Append(keys, r.node.lexeme)) ELSE r

VariableLoop(tk, c, d, keys) ==
  IF IsNext(tk, c, "DOT", 0)
  THEN VariableAfterDot(tk, keys, Consume(tk, c + 1, d, "IDENTIFIER",
                                          "Expected property name after \".\""))
  ELSE IF IsNext(tk, c, "OPEN_BRACKET", 0)
  THEN VariableAfterIndex(tk, keys, Consume(tk, c + 1, d, "NUMBER",
                                            "Expected array index after \"[\""))
  ELSE Returned([type |-> "VAR", keys |-> keys], c, d)

VariableAfterName(tk, r) ==
  IF r.ok THEN VariableLoop(tk, r.c, r.d, <<r.node.lexeme>>) ELSE r

variable(tk, c, d) ==
  VariableAfterName(tk, Consume(tk, c, d, "IDENTIFIER", "Expected variable name"))

\* variant: a NUMBER token is kept as its text, not passed through parseInt
PrimaryNumberAsText(tk, c, d) ==
  CASE ParPeek(tk, c).type \in {"NUMBER", "STRING"} ->
         Returned([type |-> "STRING", s |-> ParPeek(tk, c).lexeme], c + 1, d)
    [] ParPeek(tk, c).type = "IDENTIFIER" -> variable(tk, c, d)
    [] OTHER -> Thrown(c, ErrorAfter(d, ParPrev(tk, c), "Expected expression"))

\* the operand of a Unary is a VarNode, a number or a string (typeof decides)
primary(tk, c, d) ==
  CASE ParPeek(tk, c).type = "NUMBER" ->
         Returned([type |-> "NUMBER", n |-> DigitsValue(ParPeek(tk, c).lexeme)], c + 1, d)
    [] ParPeek(tk, c).type = "STRING" ->
         Returned([type |-> "STRING", s |-> ParPeek(tk, c).lexeme], c + 1, d)
    [] ParPeek(tk, c).type = "IDENTIFIER" -> variable(tk, c, d)
    [] OTHER -> Thrown(c, ErrorAfter(d, ParPrev(tk, c), "Expected expression"))

UnaryOf(negated, r) ==
  IF r.ok THEN Returned([type |-> "UNARY", value |-> r.node, negated |-> negated], r.c, r.d)
  ELSE r

unary(tk, c, d) ==
  UnaryOf(ParMatch(tk, c, "BANG"), primary(tk, IF ParMatch(tk, c, "BANG") THEN c + 1 ELSE c, d))

BinaryOf(operator, left, r) ==
  IF r.ok
  THEN Returned([type |-> "BINARY", operator |-> operator, left |-> left, right |-> r.node],
                r.c, r.d)
  ELSE r

RECURSIVE BinaryRightRecursive(_, _, _, _)
\* variant: the right operand is everything that follows the operator
BinaryRightRecursive(tk, c, d, left) ==
  LET u == unary(tk, c + 1, d) IN
  BinaryOf(TokenAndOperators[ParPeek(tk, c).type], left,
           IF u.ok /\ ParPeek(tk, u.c).type \in DOMAIN TokenAndOperators
           THEN BinaryRightRecursive(tk, u.c, u.d, u.node)
           ELSE u)

binary(tk, c, d, left) ==
  BinaryOf(TokenAndOperators[ParPeek(tk, c).type], left, unary(tk, c + 1, d))

RECURSIVE ConditionLoop(_, _)
ConditionLoop(tk, r) ==
  IF r.ok /\ ParPeek(tk, r.c).type \in DOMAIN TokenAndOperators
  THEN ConditionLoop(tk, binary(tk, r.c, r.d, r.node))
  ELSE r

condition(tk, c, d) == ConditionLoop(tk, unary(tk, c, d))

\* the predicates handed to parse() by ifStatement and forStatement
\* variant: every body is closed by endif
CloserAlwaysEndif(mode) == "ENDIF"

Closer(mode) == IF mode = "IF" THEN "ENDIF" ELSE "ENDFOR"
Predicate(tk, c, mode) ==
  ~(IsNext(tk, c, "OPEN_EXPR", 0) /\ IsNext(tk, c, Closer(mode), 1))

RECURSIVE RecoverLoop(_, _)
\* the catch block of parseExpr
RecoverLoop(tk, c) ==
  IF ParIsAtTheEnd(tk, c) THEN c
  ELSE IF ParPeek(tk, c).type \in {"OPEN_EXPR", "CLOSE_EXPR", "LITERAL"} THEN c
  ELSE RecoverLoop(tk, c + 1)

RECURSIVE ParseLoop(_, _, _, _, _)
RECURSIVE parseExpr(_, _, _)
RECURSIVE ifStatement(_, _, _)
RECURSIVE forStatement(_, _, _)

\* variant: the missing closer is reported at the token the parser stopped on
BlockEndAtCursor(tk, opener, mode, node, b) ==
  IF ParMatch(tk, b.c, "OPEN_EXPR") /\ ParMatch(tk, b.c + 1, Closer(mode))
  THEN Returned([node EXCEPT !.nodes = b.nodes], b.c + 2, b.d)
  ELSE Thrown(IF ParMatch(tk, b.c, "OPEN_EXPR") THEN b.c + 1 ELSE b.c,
              ParError(b.d, ParPeek(tk, b.c), IF mode = "IF" THEN "Unterminated if statement"
                                              ELSE "Unterminated for statement"))

\* the end of ifStatement and forStatement: b is the parsed body, node the
\* statement with its body still to be filled in
BlockEnd(tk, opener, mode, node, b) ==
  IF ParMatch(tk, b.c, "OPEN_EXPR") /\ ParMatch(tk, b.c + 1, Closer(mode))
  THEN Returned([node EXCEPT !.nodes = b.nodes], b.c + 2, b.d)
  ELSE Thrown(IF ParMatch(tk, b.c, "OPEN_EXPR") THEN b.c + 1 ELSE b.c,
              ParError(b.d, opener, IF mode = "IF" THEN "Unterminated if statement"
                                    ELSE "Unterminated for statement"))

\* r is the outcome of consuming the "}}" of the header
Block(tk, opener, mode, node, r) ==
  IF r.ok THEN BlockEnd(tk, opener, mode, node, ParseLoop(tk, r.c, r.d, <<>>, mode))
  ELSE r

IfAfterCondition(tk, ifToken, r) ==
  IF ~r.ok THEN r
  ELSE IF ~ParMatch(tk, r.c, "CLOSE_PAREN")
  THEN IF ~IsNext(tk, r.c, "CLOSE_EXPR", 0)
       THEN Thrown(r.c, ErrorAfter(r.d, ParPrev(tk, r.c), "Expected operator after expression"))
       ELSE Thrown(r.c, ErrorAfter(r.d, ParPrev(tk, r.c), "Expected \")\" after condition"))
  ELSE Block(tk, ifToken, "IF", [type |-> "IF", condition |-> r.node, nodes |-> <<>>],
             Consume(tk, r.c + 1, r.d, "CLOSE_EXPR", "Expected \"}}\" after \"if\" statement"))

IfAfterParen(tk, ifToken, r) ==
  IF r.ok THEN IfAfterCondition(tk, ifToken, condition(tk, r.c, r.d)) ELSE r

IfAfterKeyword(tk, c, d) ==
  IfAfterParen(tk, ParPrev(tk, c), Consume(tk, c, d, "OPEN_PAREN", "Expected \"(\" after \"if\""))

ifStatement(tk, c, d) ==
  IfAfterKeyword(tk, IF ParMatch(tk, c, "IF") THEN c + 1 ELSE c, d)

ForAfterCloseParen(tk, forToken, itemName, arrayVar, r) ==
  IF r.ok
  THEN Block(tk, forToken, "FOR",
             [type |-> "FOR", arrayVar |-> arrayVar, itemName |-> itemName, nodes |-> <<>>],
             Consume(tk, r.c, r.d, "CLOSE_EXPR", "Expected \"}}\" after \"for\" statement"))
  ELSE r

ForAfterVariable(tk, forToken, itemName, r) ==
  IF r.ok
  THEN ForAfterCloseParen(tk, forToken, itemName, r.node,
                          Consume(tk, r.c, r.d, "CLOSE_PAREN", "Expected \")\" after expression"))
  ELSE r

ForAfterIn(tk, forToken, itemName, r) ==
  IF ~r.ok THEN r
  ELSE IF ~IsNext(tk, r.c, "IDENTIFIER", 0)
  THEN Thrown(r.c, ErrorAfter(r.d, ParPrev(tk, r.c), "Expected variable after \"in\""))
  ELSE ForAfterVariable(tk, forToken, itemName, variable(tk, r.c, r.d))

ForAfterName(tk, forToken, r) ==
  IF r.ok
  THEN ForAfterIn(tk, forToken, r.node.lexeme,
                  Consume(tk, r.c, r.d, "IN", "Expected \"in\" keyword after declaration"))
  ELSE r

ForAfterParen(tk, forToken, r) ==
  IF r.ok
  THEN ForAfterName(tk, forToken,
                    Consume(tk, r.c, r.d, "IDENTIFIER", "Expected declaration after \"(\""))
  ELSE r

forStatement(tk, c, d) ==
  ForAfterParen(tk, tk[c + 1], Consume(tk, c + 1, d, "OPEN_PAREN", "Expected \"(\" after \"for\""))

\* variant: a number and "}}" are reported like a missing operand, after the
\* token before them
ParseExprPositionAnchored(tk, c, d) ==
  CASE ParPeek(tk, c).type = "IDENTIFIER" -> variable(tk, c, d)
    [] ParPeek(tk, c).type = "IF" -> ifStatement(tk, c, d)
    [] ParPeek(tk, c).type = "NUMBER" ->
         Thrown(c + 1, ErrorAfter(d, ParPrev(tk, c), "Expected expression"))
    [] ParPeek(tk, c).type = "CLOSE_EXPR" ->
         Returned(NullNode, c + 1, ErrorAfter(d, ParPrev(tk, c), "Expected expression"))
    [] ParPeek(tk, c).type = "FOR" -> forStatement(tk, c, d)
    [] OTHER -> Returned(NullNode, c, d)

\* the switch of parseExpr
ParseExprSwitch(tk, c, d) ==
  CASE ParPeek(tk, c).type = "IDENTIFIER" -> variable(tk, c, d)
    [] ParPeek(tk, c).type = "IF" -> ifStatement(tk, c, d)
    [] ParPeek(tk, c).type = "NUMBER" ->
         Thrown(c + 1, ParError(d, tk[c + 1], "Expected expression before number"))
    [] ParPeek(tk, c).type = "CLOSE_EXPR" ->
         Returned(NullNode, c + 1, ParError(d, tk[c + 1], "Invalid empty expression"))
    [] ParPeek(tk, c).type = "FOR" -> forStatement(tk, c, d)
    [] OTHER -> Returned(NullNode, c, d)

\* the catch of parseExpr: a thrown Error becomes null after resynchronizing
ParseExprCatch(tk, r) ==
  IF r.ok THEN r ELSE Returned(NullNode, RecoverLoop(tk, r.c), r.d)

\* parseExpr: node is NullNode for null; never throws
parseExpr(tk, c, d) == ParseExprCatch(tk, ParseExprSwitch(tk, c, d))

\* case OPEN_EXPR of parse: r is what parseExpr returned
ParseAfterExpr(tk, nodes, mode, r) ==
  IF r.node.type = "NULL" THEN ParseLoop(tk, r.c, r.d, nodes, mode)
  ELSE IF ParMatch(tk, r.c, "CLOSE_EXPR")
  THEN ParseLoop(tk, r.c + 1, r.d, Append(nodes, r.node), mode)
  ELSE ParseLoop(tk, r.c, ErrorAfter(r.d, ParPrev(tk, r.c), "Expected closing \"}}\""),
                 Append(nodes, r.node), mode)

\* the loop of parse(predicate); mode is "TOP" when no predicate is given
ParseLoop(tk, c, d, nodes, mode) ==
  IF ParIsAtTheEnd(tk, c) THEN [nodes |-> nodes, c |-> c, d |-> d]
  ELSE IF mode # "TOP" /\ ~Predicate(tk, c, mode) THEN [nodes |-> nodes, c |-> c, d |-> d]
  ELSE CASE tk[c + 1].type = "LITERAL" ->
              ParseLoop(tk, c + 1, d,
                        Append(nodes, [type |-> "LITERAL", contents |-> tk[c + 1].lexeme]), mode)
         [] tk[c + 1].type = "OPEN_EXPR" ->
              ParseAfterExpr(tk, nodes, mode, parseExpr(tk, c + 1, d))
         [] OTHER -> ParseLoop(tk, c + 1, d, nodes, mode)

\* Parser.parse() without a predicate, on a Parser created over tk
parse(tk, d) == ParseLoop(tk, 0, d, <<>>, "TOP")

(***************************************************************************)
(* JavaScript values of a data context (ViewArgs).  Objects and arrays     *)
(* carry an identity, which is what === compares.  Keys of the modelled    *)
(* contexts are not names of Object.prototype members.                     *)
(***************************************************************************)
Undefined == [t |-> "undefined"]
NullV == [t |-> "null"]
Bool(b) == [t |-> "boolean", b |-> b]
Num(n) == [t |-> "number", n |-> n]
Str(s) == [t |-> "string", s |-> s]
Obj(id, o) == [t |-> "object", id |-> id, o |-> o]
Arr(id, a) == [t |-> "array", id |-> id, a |-> a]

\* typeof v
TypeOf(v) == IF v.t \in {"null", "object", "array"} THEN "object" ELSE v.t

\* the truthiness of v: what !v negates
Truthy(v) ==
  CASE v.t \in {"undefined", "null"} -> FALSE
    [] v.t = "boolean" -> v.b
    [] v.t = "number" -> v.n # 0
    [] v.t = "string" -> v.s # <<>>
    [] OTHER -> TRUE

RECURSIVE NatToStr(_)
NatToStr(n) == IF n < 10 THEN <<Digits[n + 1]>> ELSE NatToStr(n \div 10) \o <<Digits[(n % 10) + 1]>>

NumToStr(n) == IF n < 0 THEN <<"-">> \o NatToStr(0 - n) ELSE NatToStr(n)

IsDigits(s) == s # <<>> /\ \A i \in 1..Len(s) : IsDigit(s[i])

\* key is the canonical text of an array index
IsIndex(key) == IsDigits(key) /\ NatToStr(DigitsValue(key)) = key

RECURSIVE ToStr(_)
RECURSIVE Join(_, _)
\* Array.prototype.join(","), from element i on
Join(a, i) ==
  IF i > Len(a) THEN <<>>
  ELSE (IF a[i].t \in {"undefined", "null"} THEN <<>> ELSE ToStr(a[i]))
       \o (IF i < Len(a) THEN <<",">> ELSE <<>>) \o Join(a, i + 1)

\* String(v)
ToStr(v) ==
  CASE v.t = "undefined" -> <<"u","n","d","e","f","i","n","e","d">>
    [] v.t = "null" -> <<"n","u","l","l">>
    [] v.t = "boolean" -> IF v.b THEN <<"t","r","u","e">> ELSE <<"f","a","l","s","e">>
    [] v.t = "number" -> NumToStr(v.n)
    [] v.t = "string" -> v.s
    [] v.t = "object" -> <<"[","o","b","j","e","c","t"," ","O","b","j","e","c","t","]">>
    [] v.t = "array" -> Join(v.a, 1)

\* obj[key] for obj an object or an array
GetProp(obj, key) ==
  CASE obj.t = "object" -> IF key \in DOMAIN obj.o THEN obj.o[key] ELSE Undefined
    [] obj.t = "array" ->
         IF IsIndex(key) /\ DigitsValue(key) < Len(obj.a) THEN obj.a[DigitsValue(key) + 1]
         ELSE IF key = <<"l","e","n","g","t","h">> THEN Num(Len(obj.a))
         ELSE Undefined

\* a === b
StrictEquals(a, b) ==
  /\ a.t = b.t
  /\ CASE a.t = "boolean" -> a.b = b.b
       [] a.t = "number" -> a.n = b.n
       [] a.t = "string" -> a.s = b.s
       [] a.t \in {"object", "array"} -> a.id = b.id
       [] OTHER -> TRUE

\* the characters of the model in code-unit order
CodeOrder == <<NL, " ", "!", QUOTE, "$", "&", "(", ")", ",", ".", "/",
               "0","1","2","3","4","5","6","7","8","9", "<", "=", ">",
               "A","B","C","D","E","F","G","H","I","J","K","L","M","N","O","P",
               "Q","R","S","T","U","V","W","X","Y","Z", "[", "]", "_",
               "a","b","c","d","e","f","g","h","i","j","k","l","m","n","o","p",
               "q","r","s","t","u","v","w","x","y","z", "{", "|", "}">>
CharCode(c) == CHOOSE i \in 1..Len(CodeOrder) : CodeOrder[i] = c

RECURSIVE StrLess(_, _)
\* s < t for two strings
StrLess(s, t) ==
  IF t = <<>> THEN FALSE
  ELSE IF s = <<>> THEN TRUE
  ELSE IF s[1] = t[1] THEN StrLess(Tail(s), Tail(t))
  ELSE CharCode(s[1]) < CharCode(t[1])

RECURSIVE Trim(_)
Trim(s) ==
  IF s # <<>> /\ s[1] \in {" ", NL} THEN Trim(Tail(s))
  ELSE IF s # <<>> /\ s[Len(s)] \in {" ", NL} THEN Trim(SubSeq(s, 1, Len(s) - 1))
  ELSE s

\* Number(v) as [nan, n]; strings of the model are digit runs or not numeric
ToNumber(v) ==
  CASE v.t = "undefined" -> [nan |-> TRUE, n |-> 0]
    [] v.t = "null" -> [nan |-> FALSE, n |-> 0]
    [] v.t = "boolean" -> [nan |-> FALSE, n |-> IF v.b THEN 1 ELSE 0]
    [] v.t = "number" -> [nan |-> FALSE, n |-> v.n]
    [] v.t = "string" ->
         IF Trim(v.s) = <<>> THEN [nan |-> FALSE, n |-> 0]
         ELSE IF IsDigits(Trim(v.s)) THEN [nan |-> FALSE, n |-> DigitsValue(Trim(v.s))]
         ELSE [nan |-> TRUE, n |-> 0]

\* ToPrimitive: plain objects and arrays convert through toString
ToPrimitive(v) == IF v.t \in {"object", "array"} THEN Str(ToStr(v)) ELSE v

\* the abstract relational comparison a < b: "true", "false" or "undefined"
Compare(a, b) ==
  LET pa == ToPrimitive(a)
      pb == ToPrimitive(b)
  IN IF pa.t = "string" /\ pb.t = "string"
     THEN (IF StrLess(pa.s, pb.s) THEN "true" ELSE "false")
     ELSE LET na == ToNumber(pa)
              nb == ToNumber(pb)
          IN IF na.nan \/ nb.nan THEN "undefined"
             ELSE IF na.n < nb.n THEN "true" ELSE "false"

(***************************************************************************)
(* Evaluator (Compiler.ts, lines 30-149).  log is the sequence of messages *)
(* written with console.error; raised = TRUE is an uncaught TypeError.     *)
(***************************************************************************)
Value(v, log) == [v |-> v, log |-> log, raised |-> FALSE]
Raised(log) == [v |-> Undefined, log |-> log, raised |-> TRUE]

\* currentPath after the key of step i (i counts from 0 as in the code)
NextPath(currentPath, key, i) ==
  IF i > 0
  THEN IF key # <<>> /\ IsDigit(key[1]) THEN currentPath \o <<"[">> \o key \o <<"]">>
       ELSE currentPath \o <<".">> \o key
  ELSE key

RECURSIVE GetVarLoopPastLast(_, _, _, _, _)
\* variant: the test for the last key is off by one
GetVarLoopPastLast(keys, i, currentObj, currentPath, log) ==
  IF i >= Len(keys) THEN Value(Undefined, log)
  ELSE LET key == keys[i + 1] IN
       IF TypeOf(currentObj) # "object"
       THEN Value(Undefined, Append(log, [kind |-> "cant_be_found", key |-> key,
                                          path |-> currentPath]))
       ELSE IF currentObj.t = "null" THEN Raised(log)
       ELSE LET path == NextPath(currentPath, key, i)
                val == GetProp(currentObj, key)
            IN IF val.t # "undefined"
               THEN IF i = Len(keys) THEN Value(val, log)
                    ELSE GetVarLoopPastLast(keys, i + 1, val, path, log)
               ELSE Value(Undefined, Append(log, [kind |-> "is_undefined", key |-> key,
                                                  path |-> path]))

RECURSIVE GetVarLoop(_, _, _, _, _)
GetVarLoop(keys, i, currentObj, currentPath, log) ==
  IF i >= Len(keys) THEN Value(Undefined, log)
  ELSE LET key == keys[i + 1] IN
       IF TypeOf(currentObj) # "object"
       THEN Value(Undefined, Append(log, [kind |-> "cant_be_found", key |-> key,
                                          path |-> currentPath]))
       ELSE IF currentObj.t = "null" THEN Raised(log)
       ELSE LET path == NextPath(currentPath, key, i)
                val == GetProp(currentObj, key)
            IN IF val.t # "undefined"
               THEN IF i = Len(keys) - 1 THEN Value(val, log)
                    ELSE GetVarLoop(keys, i + 1, val, path, log)
               ELSE Value(Undefined, Append(log, [kind |-> "is_undefined", key |-> key,
                                                  path |-> path]))

getVarValue(stmt, ctx, log) == GetVarLoop(stmt.keys, 0, ctx, <<>>, log)

\* variant: == and != convert a text of digits to a number before comparing
ApplyOperatorLoose(operator, v1, v2) ==
  LET eq == IF {v1.t, v2.t} = {"number", "string"}
            THEN ~ToNumber(v1).nan /\ ~ToNumber(v2).nan /\ ToNumber(v1).n = ToNumber(v2).n
            ELSE StrictEquals(v1, v2)
  IN CASE operator = "EQUAL" -> Bool(eq)
       [] operator = "NOT_EQUAL" -> Bool(~eq)
       [] operator = "GREATHER" -> Bool(Compare(v2, v1) = "true")
       [] operator = "LESS" -> Bool(Compare(v1, v2) = "true")
       [] operator = "GREATHER_OR_EQ" -> Bool(Compare(v1, v2) = "false")
       [] operator = "LESS_OR_EQ" -> Bool(Compare(v2, v1) = "false")
       [] operator = "AND" -> IF Truthy(v1) THEN v2 ELSE v1
       [] operator = "OR" -> IF Truthy(v1) THEN v1 ELSE v2

ApplyOperator(operator, v1, v2) ==
  CASE operator = "EQUAL" -> Bool(StrictEquals(v1, v2))
    [] operator = "NOT_EQUAL" -> Bool(~StrictEquals(v1, v2))
    [] operator = "GREATHER" -> Bool(Compare(v2, v1) = "true")
    [] operator = "LESS" -> Bool(Compare(v1, v2) = "true")
    [] operator = "GREATHER_OR_EQ" -> Bool(Compare(v1, v2) = "false")
    [] operator = "LESS_OR_EQ" -> Bool(Compare(v2, v1) = "false")
    [] operator = "AND" -> IF Truthy(v1) THEN v2 ELSE v1
    [] operator = "OR" -> IF Truthy(v1) THEN v1 ELSE v2

RECURSIVE CompileLogicExprShortCircuit(_, _, _)
\* variant: the right operand of && and || is resolved only when it decides
CompileLogicExprShortCircuit(logicExpr, ctx, log) ==
  IF logicExpr.type = "UNARY" THEN
    LET r == CASE logicExpr.value.type = "NUMBER" -> Value(Num(logicExpr.value.n), log)
               [] logicExpr.value.type = "STRING" -> Value(Str(logicExpr.value.s), log)
               [] OTHER -> getVarValue(logicExpr.value, ctx, log)
    IN IF r.raised THEN r
       ELSE Value(IF logicExpr.negated THEN Bool(~Truthy(r.v)) ELSE r.v, r.log)
  ELSE IF logicExpr.type = "BINARY" THEN
    LET r1 == CompileLogicExprShortCircuit(logicExpr.left, ctx, log) IN
    IF r1.raised THEN r1
    ELSE IF logicExpr.operator = "AND" /\ ~Truthy(r1.v) THEN r1
    ELSE IF logicExpr.operator = "OR" /\ Truthy(r1.v) THEN r1
    ELSE LET r2 == CompileLogicExprShortCircuit(logicExpr.right, ctx, r1.log) IN
         IF r2.raised THEN r2
         ELSE Value(ApplyOperator(logicExpr.operator, r1.v, r2.v), r2.log)
  ELSE Value(Bool(FALSE), log)

RECURSIVE compileLogicExpr(_, _, _)
compileLogicExpr(logicExpr, ctx, log) ==
  IF logicExpr.type = "UNARY" THEN
    LET r == CASE logicExpr.value.type = "NUMBER" -> Value(Num(logicExpr.value.n), log)
               [] logicExpr.value.type = "STRING" -> Value(Str(logicExpr.value.s), log)
               [] OTHER -> getVarValue(logicExpr.value, ctx, log)
    IN IF r.raised THEN r
       ELSE Value(IF logicExpr.negated THEN Bool(~Truthy(r.v)) ELSE r.v, r.log)
  ELSE IF logicExpr.type = "BINARY" THEN
    LET r1 == compileLogicExpr(logicExpr.left, ctx, log) IN
    IF r1.raised THEN r1
    ELSE LET r2 == compileLogicExpr(logicExpr.right, ctx, r1.log) IN
         IF r2.raised THEN r2
         ELSE Value(ApplyOperator(logicExpr.operator, r1.v, r2.v), r2.log)
  ELSE Value(Bool(FALSE), log)

\* variant: {[itemName]: item, ...args}, a binding of args wins
SpreadItemFirst(ctx, itemName, item) ==
  LET own == CASE ctx.t = "object" -> ctx.o
               [] ctx.t = "array" -> [k \in {NatToStr(i - 1) : i \in 1..Len(ctx.a)} |->
                                        ctx.a[DigitsValue(k) + 1]]
               [] OTHER -> <<>>
  IN Obj(0, [k \in (DOMAIN own) \cup {itemName} |-> IF k \in DOMAIN own THEN own[k] ELSE item])

\* {...args, [itemName]: item}: a new object
Spread(ctx, itemName, item) ==
  LET own == CASE ctx.t = "object" -> ctx.o
               [] ctx.t = "array" -> [k \in {NatToStr(i - 1) : i \in 1..Len(ctx.a)} |->
                                        ctx.a[DigitsValue(k) + 1]]
               [] OTHER -> <<>>
  IN Obj(0, [k \in (DOMAIN own) \cup {itemName} |-> IF k = itemName THEN item ELSE own[k]])

Output(out, log) == [out |-> out, log |-> log, raised |-> FALSE]
Aborted(log) == [out |-> <<>>, log |-> log, raised |-> TRUE]

RECURSIVE compileStatements(_, _, _)
RECURSIVE StatementsLoop(_, _, _, _, _)
RECURSIVE compileIf(_, _, _)
RECURSIVE compileFor(_, _, _)
RECURSIVE ForLoop(_, _, _, _, _, _)

compileIf(ifStmt, ctx, log) ==
  LET c == compileLogicExpr(ifStmt.condition, ctx, log) IN
  IF c.raised THEN Aborted(c.log)
  ELSE IF Truthy(c.v) THEN compileStatements(ifStmt.nodes, ctx, c.log)
  ELSE Output(<<>>, c.log)

RECURSIVE ForLoopFromLast(_, _, _, _, _, _)
\* variant: the text of each item is put before the text of the items before it
ForLoopFromLast(forStmt, ctx, array, i, res, log) ==
  IF i > Len(array) THEN Output(res, log)
  ELSE LET r == compileStatements(forStmt.nodes, Spread(ctx, forStmt.itemName, array[i]), log)
       IN IF r.raised THEN r
          ELSE ForLoopFromLast(forStmt, ctx, array, i + 1, r.out \o res, r.log)

\* the for..of loop of compileFor, from element i on
ForLoop(forStmt, ctx, array, i, res, log) ==
  IF i > Len(array) THEN Output(res, log)
  ELSE LET r == compileStatements(forStmt.nodes, Spread(ctx, forStmt.itemName, array[i]), log)
       IN IF r.raised THEN r
          ELSE ForLoop(forStmt, ctx, array, i + 1, res \o r.out, r.log)

\* variant: without the test "if(!array)"
CompileForUnlessArray(forStmt, ctx, log) ==
  LET a == getVarValue(forStmt.arrayVar, ctx, log) IN
  IF a.raised THEN Aborted(a.log)
  ELSE IF a.v.t # "array" THEN Output(<<>>, Append(a.log, [kind |-> "not_an_array"]))
  ELSE ForLoop(forStmt, ctx, a.v.a, 1, <<>>, a.log)

compileFor(forStmt, ctx, log) ==
  LET a == getVarValue(forStmt.arrayVar, ctx, log) IN
  IF a.raised THEN Aborted(a.log)
  ELSE IF ~Truthy(a.v) THEN Output(<<>>, a.log)
  ELSE IF a.v.t # "array" THEN Output(<<>>, Append(a.log, [kind |-> "not_an_array"]))
  ELSE ForLoop(forStmt, ctx, a.v.a, 1, <<>>, a.log)

\* one statement of the switch of compileStatements: the text added to res
CompileStatement(stmt, ctx, log) ==
  CASE stmt.type = "LITERAL" -> Output(stmt.contents, log)
    [] stmt.type = "VAR" ->
         LET r == getVarValue(stmt, ctx, log) IN
         IF r.raised THEN Aborted(r.log) ELSE Output(ToStr(r.v), r.log)
    [] stmt.type = "IF" -> compileIf(stmt, ctx, log)
    [] stmt.type = "FOR" -> compileFor(stmt, ctx, log)
    [] OTHER -> Output(<<>>, log)

StatementsLoop(stmts, ctx, i, res, log) ==
  IF i > Len(stmts) THEN Output(res, log)
  ELSE LET r == CompileStatement(stmts[i], ctx, log) IN
       IF r.raised THEN r
       ELSE StatementsLoop(stmts, ctx, i + 1, res \o r.out, r.log)

compileStatements(stmts, ctx, log) == StatementsLoop(stmts, ctx, 1, <<>>, log)

(***************************************************************************)
(* Compiler.compileFile and the render function it returns                 *)
(***************************************************************************)
NoView == [type |-> "null"]
View(stmts) == [type |-> "view", statements |-> stmts]
NoResult == [out |-> <<>>, log |-> <<>>, raised |-> FALSE]

\* bound on the number of calls of one render function
MaxCalls == 2

\* new Compiler(): buffer = "", hadErrors = false
InitCompiler ==
  /\ pc = "start"
  /\ buffer = <<>>
  /\ hadErrors = FALSE
  /\ logged = <<>>
  /\ tokens = <<>>
  /\ scanEnd = 0
  /\ statements = <<>>
  /\ cursor = 0
  /\ view = NoView
  /\ result = NoResult
  /\ calls = 0
  /\ pending = {}
  /\ returned = <<>>

\* compileFile up to its await: the file is being read
CompileFileBegin ==
  /\ pc = "start"
  /\ pc' = "reading"
  /\ UNCHANGED <<file, data, buffer, hadErrors, logged, tokens, scanEnd, statements,
                 cursor, view, result, calls, pending, returned>>

\* what compileFile computes after the await, for the file text buf and the
\* Compiler fields comp: the Lexer after scanTokens and the outcome of parse
ParseScanned(lexer) == [lexer |-> lexer, parsed |-> parse(lexer.tokens, lexer.compiler)]

Compilation(buf, comp) == ParseScanned(scanTokens(buf, comp))

\* compileFile after the await: scan, parse, and null if any error was reported
CompileFileResume ==
  /\ pc = "reading"
  /\ \E r \in {Compilation(file, [logged |-> logged, hadErrors |-> hadErrors])} :
        /\ buffer' = file
        /\ tokens' = r.lexer.tokens
        /\ scanEnd' = r.lexer.current
        /\ statements' = r.parsed.nodes
        /\ cursor' = r.parsed.c
        /\ logged' = r.parsed.d.logged
        /\ hadErrors' = r.parsed.d.hadErrors
        /\ view' = IF r.parsed.d.hadErrors THEN NoView ELSE View(r.parsed.nodes)
  /\ pc' = "compiled"
  /\ UNCHANGED <<file, data, result, calls, pending, returned>>

\* the caller invokes the render function: view(args)
Render ==
  /\ pc = "compiled"
  /\ view.type = "view"
  /\ calls < MaxCalls
  /\ result' = compileStatements(view.statements, data, <<>>)
  /\ calls' = calls + 1
  /\ UNCHANGED <<file, data, pc, buffer, hadErrors, logged, tokens, scanEnd,
                 statements, cursor, view, pending, returned>>

Next == CompileFileBegin \/ CompileFileResume \/ Render

(***************************************************************************)
(* Texts and data contexts the specifications draw their inputs from       *)
(***************************************************************************)
OPEN == <<"{", "{">>
CLOSE == <<"}", "}">>
kFoo == <<"f", "o", "o">>
kBar == <<"b", "a", "r">>
kBaz == <<"b", "a", "z">>
kItems == <<"i", "t", "e", "m", "s">>
kLength == <<"l", "e", "n", "g", "t", "h">>

\* all sequences over A of length at most n
SeqsUpTo(A, n) == UNION {[1..k -> A] : k \in 0..n}

HasOpenExpr(s) == \E i \in 1..(Len(s) - 1) : s[i] = "{" /\ s[i + 1] = "{"

\* bound on the length of a text without expressions
MaxLit == 4
LitAlphabet == {"a", "{", "}", NL}
LiteralSources == {s \in SeqsUpTo(LitAlphabet, MaxLit) : ~HasOpenExpr(s)}

\* data contexts for a variable path rooted at foo
VarCtxs ==
  << Undefined,
     Obj(1, <<>>),
     Obj(1, kFoo :> Str(kBar)),
     Obj(1, kFoo :> Obj(2, kBar :> Str(kBaz))),
     Obj(1, kFoo :> Arr(2, <<Str(kBar)>>)),
     Obj(1, kFoo :> Arr(2, <<Obj(3, kBar :> Str(kBaz))>>)),
     Obj(1, kFoo :> NullV),
     Obj(1, kFoo :> Num(7)),
     Obj(1, kFoo :> Bool(TRUE)),
     Obj(1, kFoo :> Obj(2, (<<"0">> :> Str(<<"z">>)) @@ (kBar :> NullV))),
     Obj(1, kFoo :> Arr(2, <<NullV, Arr(3, <<Num(1), Num(20)>>)>>)),
     Obj(1, kFoo :> Obj(2, kBar :> Obj(3, kBar :> Num(0)))),
     Obj(1, kFoo :> Str(<<>>)),
     Obj(1, kFoo :> Bool(FALSE)) >>

InitLiteral ==
  /\ file \in LiteralSources
  /\ \E i \in 1..Len(VarCtxs) : data = VarCtxs[i]
  /\ InitCompiler

\* texts without expressions, rendered with every context
SpecLiteral == InitLiteral /\ [][Next]_vars

\* C1: a text without "{{" compiles without a diagnostic and its render
\* function returns exactly that text, for every context
RoundTrip ==
  /\ pc = "compiled" => view.type = "view" /\ logged = <<>> /\ ~hadErrors
  /\ calls > 0 => ~result.raised /\ result.out = file /\ result.log = <<>>

\* a text with an isolated "{", a "}" and a newline has been rendered to itself
RoundTripWitness ==
  /\ calls > 0
  /\ result.out = file
  /\ \E i, j, k \in 1..Len(file) : file[i] = "{" /\ file[j] = NL /\ file[k] = "}"

(***************************************************************************)
(* Spec: templates assembled from expression regions and literal text,     *)
(* well-formed and malformed                                               *)
(***************************************************************************)
kX == <<"x">>

\* the pieces a template of Spec is assembled from
Fragments ==
  { <<"a">>,
    OPEN \o <<" ">> \o kFoo \o <<" ">> \o CLOSE,
    OPEN \o <<"i","f","(">> \o kFoo \o <<")">> \o CLOSE,
    OPEN \o <<"e","n","d","i","f">> \o CLOSE,
    OPEN \o <<"f","o","r","(","x"," ","i","n"," ">> \o kItems \o <<")">> \o CLOSE,
    OPEN \o <<"e","n","d","f","o","r">> \o CLOSE,
    OPEN \o kX \o CLOSE,
    OPEN \o <<" ","1","7"," ">> \o CLOSE,
    OPEN \o <<" ">> \o kFoo \o <<"."," ">> \o CLOSE,
    OPEN \o <<" ","x"," ","=","b"," ">> \o CLOSE,
    OPEN \o <<" ">> \o kFoo \o <<NL>>,
    OPEN \o <<" ",QUOTE,"s">> }

\* bound on the number of pieces of a template
MaxSegs == 3

RECURSIVE Flatten(_)
\* the concatenation of a sequence of texts
Flatten(ss) == IF ss = <<>> THEN <<>> ELSE ss[1] \o Flatten(Tail(ss))

Sources == {Flatten(ss) : ss \in SeqsUpTo(Fragments, MaxSegs)}

\* data contexts of Spec
Ctxs ==
  << Undefined,
     Obj(1, (kFoo :> Str(kBar)) @@ (kItems :> Arr(2, <<Str(<<"a">>), Num(0)>>))),
     Obj(1, (kFoo :> Num(0)) @@ (kX :> NullV) @@ (kItems :> Str(<<"a","b">>))) >>

Init ==
  /\ file \in Sources
  /\ \E i \in 1..Len(Ctxs) : data = Ctxs[i]
  /\ InitCompiler

Spec == Init /\ [][Next]_vars

MaxKeys == 3

\* what may follow the first key: .bar  [0]  [1]  .length
PathSteps == { <<".">> \o kBar, <<"[", "0", "]">>, <<"[", "1", "]">>, <<".">> \o kLength }

VarSources ==
  { w[1] \o OPEN \o <<" ">> \o kFoo \o Flatten(steps) \o <<" ">> \o CLOSE \o w[2] :
      w \in { <<<<>>, <<>>>>, << <<"<", "p", ">">>, <<"<", "/", "p", ">">> >> },
      steps \in SeqsUpTo(PathSteps, MaxKeys - 1) }

InitVar ==
  /\ file \in VarSources
  /\ \E i \in 1..Len(VarCtxs) : data = VarCtxs[i]
  /\ InitCompiler

SpecVar == InitVar /\ [][Next]_vars

\* the data a context holds under a key, as the language defines it: an own
\* key of an object, an element or the length of an array
Holds(v, key) ==
  CASE v.t = "object" -> IF key \in DOMAIN v.o THEN v.o[key] ELSE Undefined
    [] v.t = "array" ->
         IF key = kLength THEN Num(Len(v.a))
         ELSE IF \E i \in 1..Len(v.a) : NatToStr(i - 1) = key
              THEN v.a[(CHOOSE i \in 1..Len(v.a) : NatToStr(i - 1) = key)]
              ELSE Undefined
    [] OTHER -> Undefined

RECURSIVE FailingKey(_, _, _)
\* the position (from 1) of the first key of the path that cannot be
\* resolved from v on: the value reached is no object or array, or does not
\* hold the key; 0 when the whole path resolves
FailingKey(v, keys, i) ==
  IF i > Len(keys) THEN 0
  ELSE IF v.t \notin {"object", "array"} THEN i
  ELSE IF Holds(v, keys[i]).t = "undefined" THEN i
  ELSE FailingKey(Holds(v, keys[i]), keys, i + 1)

RECURSIVE ValueAt(_, _, _)
\* the value a resolvable path leads to
ValueAt(v, keys, i) == IF i > Len(keys) THEN v ELSE ValueAt(Holds(v, keys[i]), keys, i + 1)

RECURSIVE TextWith(_, _)
\* the literal text of the statements, every variable reference replaced by text
TextWith(stmts, text) ==
  IF stmts = <<>> THEN <<>>
  ELSE (IF stmts[1].type = "LITERAL" THEN stmts[1].contents ELSE text)
       \o TextWith(Tail(stmts), text)

\* the variable reference of a template of SpecVar
TheVar == statements[CHOOSE i \in 1..Len(statements) : statements[i].type = "VAR"]

\* C3: a render function never raises
RenderNeverRaises == calls > 0 => ~result.raised

\* C4: a variable reference that cannot be resolved emits "undefined" and logs
\* exactly one diagnostic, which names the first failing key
UnresolvedEmitsUndefined ==
  (calls > 0 /\ FailingKey(data, TheVar.keys, 1) > 0) =>
     /\ ~result.raised
     /\ result.out = TextWith(statements, <<"u","n","d","e","f","i","n","e","d">>)
     /\ Len(result.log) = 1
     /\ result.log[1].key = TheVar.keys[FailingKey(data, TheVar.keys, 1)]

\* C5: a variable reference whose path resolves emits the string form of the
\* value the path leads to and logs nothing
ResolvedEmitsValue ==
  (calls > 0 /\ FailingKey(data, TheVar.keys, 1) = 0) =>
     /\ ~result.raised
     /\ result.out = TextWith(statements, ToStr(ValueAt(data, TheVar.keys, 1)))
     /\ result.log = <<>>

\* foo[0].bar was rendered with {foo: [{bar: "baz"}]}
ResolvedEmitsValueWitness ==
  /\ calls > 0
  /\ TheVar.keys = <<kFoo, <<"0">>, kBar>>
  /\ data.t = "object" /\ kFoo \in DOMAIN data.o /\ data.o[kFoo].t = "array"
  /\ result.out = <<"<", "p", ">">> \o kBaz \o <<"<", "/", "p", ">">>

\* foo[0] was rendered with an object foo that has the key "0"
NumericObjectKeyWitness ==
  /\ calls > 0
  /\ TheVar.keys = <<kFoo, <<"0">>>>
  /\ data.t = "object" /\ kFoo \in DOMAIN data.o /\ data.o[kFoo].t = "object"
  /\ result.out = <<"z">>

(***************************************************************************)
(* SpecCond: one If statement; its condition is a single Unary or a chain  *)
(* of operands joined by operators                                         *)
(***************************************************************************)
kA == <<"a">>
kB == <<"b">>
kC == <<"c">>
kM == <<"m">>
OkText == <<"o", "k">>

\* the operand texts of a condition with a single Unary
UnaryTexts ==
  LET prim == { kA, kB, kM, <<"0">>, <<"7">>, <<QUOTE, QUOTE>>, <<QUOTE, "s", QUOTE>> }
  IN prim \cup { <<"!">> \o t : t \in prim }

\* the operand at each position of a chain
ChainOperands == << kA, kB, kC, <<"!">> \o kA, <<"5">> >>
OperatorTexts == { <<"=","=">>, <<"!","=">>, <<">">>, <<"<">>, <<">","=">>, <<"<","=">>,
                   <<"&","&">>, <<"|","|">> }

\* bound on the number of operators of a condition
MaxOps == 2

RECURSIVE ChainText(_, _)
\* operand 1, then " op operand" for every operator of ops
ChainText(ops, k) ==
  IF k = 0 THEN ChainOperands[1]
  ELSE ChainText(ops, k - 1) \o <<" ">> \o ops[k] \o <<" ">> \o ChainOperands[k + 1]

\* x == y and x != y over variables and literals
EqualityOperands == { kA, kB, <<"5">>, <<QUOTE, "5", QUOTE>> }
EqualityTexts ==
  { x \o <<" ">> \o op \o <<" ">> \o y :
      x \in EqualityOperands, y \in EqualityOperands, op \in { <<"=","=">>, <<"!","=">> } }

CondTexts ==
  UnaryTexts \cup { ChainText(ops, Len(ops)) : ops \in SeqsUpTo(OperatorTexts, MaxOps) }
    \cup EqualityTexts

\* {{if(cond)}}ok{{a}}{{endif}}z
CondSources ==
  { OPEN \o <<"i","f","(">> \o t \o <<")">> \o CLOSE \o OkText \o OPEN \o kA \o CLOSE
      \o OPEN \o <<"e","n","d","i","f">> \o CLOSE \o <<"z">> : t \in CondTexts }

ABC(a, b, c) == Obj(1, (kA :> a) @@ (kB :> b) @@ (kC :> c))

CondCtxs ==
  << Undefined,
     ABC(Bool(TRUE), Bool(TRUE), Bool(TRUE)),
     ABC(Bool(TRUE), Bool(TRUE), Bool(FALSE)),
     ABC(Bool(TRUE), Bool(FALSE), Bool(TRUE)),
     ABC(Bool(TRUE), Bool(FALSE), Bool(FALSE)),
     ABC(Bool(FALSE), Bool(TRUE), Bool(TRUE)),
     ABC(Bool(FALSE), Bool(TRUE), Bool(FALSE)),
     ABC(Bool(FALSE), Bool(FALSE), Bool(TRUE)),
     ABC(Bool(FALSE), Bool(FALSE), Bool(FALSE)),
     ABC(Num(5), Str(<<"5">>), Num(0)),
     ABC(Str(<<"b">>), Str(<<"a">>), Str(<<>>)),
     ABC(NullV, Arr(2, <<>>), Obj(3, <<>>)),
     ABC(Num(0), Num(7), NullV),
     Obj(1, (kA :> Bool(TRUE))),
     Obj(1, (kA :> Num(0))),
     ABC(Num(5), Str(<<"5">>), Str(<<"5">>)) >>

InitCond ==
  /\ file \in CondSources
  /\ \E i \in 1..Len(CondCtxs) : data = CondCtxs[i]
  /\ InitCompiler

SpecCond == InitCond /\ [][Next]_vars

\* the truthiness of a value as the language defines it
IsTruthy(v) ==
  ~ \/ v.t \in {"undefined", "null"}
    \/ v.t = "boolean" /\ ~v.b
    \/ v.t = "number" /\ v.n = 0
    \/ v.t = "string" /\ Len(v.s) = 0

\* the tokens of a condition that is one Unary: tokens[4] is "!" or the
\* operand, and ")" follows the operand
CondNegated == tokens[4].type = "BANG"
CondOperand == tokens[IF CondNegated THEN 5 ELSE 4]
CondIsUnary == tokens[IF CondNegated THEN 6 ELSE 5].type = "CLOSE_PAREN"

\* the truthiness the claim gives a Unary: a number literal iff non-zero, a
\* string literal iff non-empty, a variable by the value it resolves to in
\* ctx, the whole inverted by "!"
UnaryTruth(ctx) ==
  CondNegated #
    CASE CondOperand.type = "NUMBER" -> \E i \in 1..Len(CondOperand.lexeme) : CondOperand.lexeme[i] # "0"
      [] CondOperand.type = "STRING" -> CondOperand.lexeme # <<>>
      [] OTHER -> IsTruthy(Holds(ctx, CondOperand.lexeme))

\* ok{{a}} rendered against ctx
BodyText(ctx) == OkText \o ToStr(Holds(ctx, kA))

\* C6: the If emits its body, rendered against the unchanged context, when
\* the condition value is truthy and nothing otherwise; the truthiness of a
\* Unary condition is that of its literal or variable, inverted by "!"
IfEmitsBodyIffTruthy ==
  calls > 0 =>
    /\ ~result.raised
    /\ result.out = (IF Truthy(compileLogicExpr(statements[1].condition, data, <<>>).v)
                     THEN BodyText(data) ELSE <<>>) \o <<"z">>
    /\ CondIsUnary =>
         result.out = (IF UnaryTruth(data)
                       THEN BodyText(data) ELSE <<>>) \o <<"z">>

\* if(!b) was rendered with a falsy b and emitted the body with a from the context
IfEmitsBodyIffTruthyWitness ==
  /\ calls > 0
  /\ CondIsUnary
  /\ CondNegated
  /\ CondOperand.lexeme = kB
  /\ data = ABC(Bool(TRUE), Bool(FALSE), Bool(TRUE))
  /\ result.out = OkText \o <<"t", "r", "u", "e", "z">>

\* the ")" that closes the condition, and the operator tokens before it
CondEnd == CHOOSE i \in 4..Len(tokens) :
             /\ tokens[i].type = "CLOSE_PAREN"
             /\ \A j \in 4..(i - 1) : tokens[j].type # "CLOSE_PAREN"
IsOperatorAt(i) == tokens[i].type \in DOMAIN TokenAndOperators
LastOperator(hi) == CHOOSE p \in 4..(hi - 1) :
                      IsOperatorAt(p) /\ \A q \in (p + 1)..(hi - 1) : ~IsOperatorAt(q)

\* the Unary written by the tokens lo..hi-1: an optional "!", then a number,
\* a string or the keys of a variable
UnaryWritten(lo, hi) ==
  LET neg == tokens[lo].type = "BANG"
      t == tokens[IF neg THEN lo + 1 ELSE lo]
      rest == SubSeq(tokens, IF neg THEN lo + 1 ELSE lo, hi - 1)
      names == SelectSeq(rest, LAMBDA k : k.type \in {"IDENTIFIER", "NUMBER"})
  IN [type |-> "UNARY",
      value |-> CASE t.type = "NUMBER" -> [type |-> "NUMBER", n |-> DigitsValue(t.lexeme)]
                  [] t.type = "STRING" -> [type |-> "STRING", s |-> t.lexeme]
                  [] OTHER -> [type |-> "VAR",
                               keys |-> [i \in 1..Len(names) |-> names[i].lexeme]],
      negated |-> neg]

RECURSIVE LeftFold(_)
\* the tree the claim gives the tokens 4..hi-1: the operands in source order,
\* each operator applied to everything on its left and the one Unary on its right
LeftFold(hi) ==
  IF \E p \in 4..(hi - 1) : IsOperatorAt(p)
  THEN [type |-> "BINARY", operator |-> TokenAndOperators[tokens[LastOperator(hi)].type],
        left |-> LeftFold(LastOperator(hi)), right |-> UnaryWritten(LastOperator(hi) + 1, hi)]
  ELSE UnaryWritten(4, hi)

RECURSIVE RightIsUnary(_)
RightIsUnary(expr) ==
  expr.type = "BINARY" => (expr.right.type = "UNARY" /\ RightIsUnary(expr.left))

RECURSIVE LeftFoldValue(_, _)
\* the value of the tokens 4..hi-1 taken left to right, no operator binding
\* tighter than another
LeftFoldValue(hi, ctx) ==
  IF \E p \in 4..(hi - 1) : IsOperatorAt(p)
  THEN ApplyOperator(TokenAndOperators[tokens[LastOperator(hi)].type],
                     LeftFoldValue(LastOperator(hi), ctx),
                     compileLogicExpr(UnaryWritten(LastOperator(hi) + 1, hi), ctx, <<>>).v)
  ELSE compileLogicExpr(UnaryWritten(4, hi), ctx, <<>>).v

\* C10: a condition is parsed as a strict left-to-right fold: every operator
\* takes the whole expression parsed so far as its left operand and a single
\* Unary as its right operand, so a || b && c is (a || b) && c, and the If
\* renders by the value of that fold
LeftToRightFold ==
  pc = "compiled" =>
    /\ statements[1].condition = LeftFold(CondEnd)
    /\ RightIsUnary(statements[1].condition)
    /\ calls > 0 =>
         result.out = (IF IsTruthy(LeftFoldValue(CondEnd, data)) THEN BodyText(data) ELSE <<>>)
                      \o <<"z">>

\* a || b && c over a true, b true, c false: (a || b) && c is false and nothing
\* is emitted for the If; a || (b && c) would be true
LeftToRightFoldWitness ==
  /\ calls > 0
  /\ Len(tokens) > 8
  /\ CondEnd = 9
  /\ <<tokens[4].lexeme, tokens[5].type, tokens[6].lexeme, tokens[7].type, tokens[8].lexeme>>
       = <<kA, "OR", kB, "DOUBLE_AND", kC>>
  /\ data = ABC(Bool(TRUE), Bool(TRUE), Bool(FALSE))
  /\ result.out = <<"z">>

(***************************************************************************)
(* SpecFor: one For statement over items or o.items, then a tail           *)
(***************************************************************************)
kO == <<"o">>
Expr(t) == OPEN \o t \o CLOSE

\* the item names: x is new to the context, a is bound by it
ItemNames == { kX, kA }
IterablePaths == { kItems, kO \o <<".">> \o kItems }

\* the bodies of the For, written with the item name
Bodies(name) ==
  { <<>>,
    <<"<">> \o Expr(name) \o <<">">>,
    Expr(name) \o Expr(kB),
    Expr(name) \o Expr(kItems \o <<"[", "0", "]">>),
    Expr(kM),
    Expr(<<"i", "f", "(">> \o name \o <<")">>) \o Expr(kA) \o Expr(<<"e", "n", "d", "i", "f">>) }

\* what follows endfor
Tails(name) == { <<>>, <<"|">> \o Expr(name) }

ForSources ==
  { Expr(<<"f", "o", "r", "(">> \o name \o <<" ", "i", "n", " ">> \o path \o <<")">>)
      \o body \o Expr(<<"e", "n", "d", "f", "o", "r">>) \o tail :
    name \in ItemNames, path \in IterablePaths,
    body \in UNION { Bodies(n) : n \in ItemNames }, tail \in UNION { Tails(n) : n \in ItemNames } }

\* bound on the length of the iterated arrays
MaxItems == 2

Elements == { Str(<<"p">>), Str(<<"q">>), Num(0) }

\* {a: "A", b: "B", items: v, o: {items: v}}
ForCtx(v) ==
  Obj(1, (kA :> Str(<<"A">>)) @@ (kB :> Str(<<"B">>)) @@ (kItems :> v)
         @@ (kO :> Obj(2, (kItems :> v))))

Iterables ==
  { Arr(3, a) : a \in SeqsUpTo(Elements, MaxItems) }
    \cup { Str(<<"p", "q">>), Str(<<>>), Num(0), Num(5), Bool(TRUE), Bool(FALSE), NullV,
           Obj(3, <<>>) }

\* the contexts in which items and o.items are absent, or o is null
BareCtxs ==
  << Obj(1, (kA :> Str(<<"A">>)) @@ (kO :> Obj(2, <<>>))),
     Obj(1, (kA :> Str(<<"A">>)) @@ (kItems :> NullV) @@ (kO :> NullV)) >>

InitFor ==
  /\ file \in ForSources
  /\ \/ \E v \in Iterables : data = ForCtx(v)
     \/ \E i \in 1..Len(BareCtxs) : data = BareCtxs[i]
  /\ InitCompiler

SpecFor == InitFor /\ [][Next]_vars

TheFor == statements[1]
AfterFor == Tail(statements)
IterableKeys == TheFor.arrayVar.keys

\* the iterable resolves in ctx, and to an array
IterableIsArray(ctx) ==
  /\ FailingKey(ctx, IterableKeys, 1) = 0
  /\ ValueAt(ctx, IterableKeys, 1).t = "array"
Items(ctx) == ValueAt(ctx, IterableKeys, 1).a

\* ctx with name bound to item, whatever ctx bound it to
WithItem(ctx, name, item) ==
  Obj(0, [k \in (DOMAIN ctx.o) \cup {name} |-> IF k = name THEN item ELSE ctx.o[k]])

RECURSIVE WithValueAt(_, _, _, _)
\* ctx with the value at the path keys replaced by v
WithValueAt(ctx, keys, i, v) ==
  IF i > Len(keys) THEN v
  ELSE [ctx EXCEPT !.o[keys[i]] = WithValueAt(ctx.o[keys[i]], keys, i + 1, v)]

\* the body rendered with the item name bound to item
ItemOutput(ctx, item) ==
  compileStatements(TheFor.nodes, WithItem(ctx, TheFor.itemName, item), <<>>).out

RECURSIVE ItemOutputs(_, _, _)
\* the item outputs of the array, from element i on, in the order of the array
ItemOutputs(ctx, array, i) ==
  IF i > Len(array) THEN <<>>
  ELSE ItemOutput(ctx, array[i]) \o ItemOutputs(ctx, array, i + 1)

\* the statements name the variable key outside the scope of an item of that name
RECURSIVE Names(_, _)
RECURSIVE ConditionNames(_, _)
ConditionNames(expr, key) ==
  CASE expr.type = "BINARY" -> ConditionNames(expr.left, key) \/ ConditionNames(expr.right, key)
    [] expr.type = "UNARY" -> expr.value.type = "VAR" /\ expr.value.keys[1] = key
    [] OTHER -> FALSE
Names(stmts, key) ==
  \E i \in 1..Len(stmts) :
    CASE stmts[i].type = "VAR" -> stmts[i].keys[1] = key
      [] stmts[i].type = "IF" -> ConditionNames(stmts[i].condition, key) \/ Names(stmts[i].nodes, key)
      [] stmts[i].type = "FOR" ->
           \/ stmts[i].arrayVar.keys[1] = key
           \/ stmts[i].itemName # key /\ Names(stmts[i].nodes, key)
      [] OTHER -> FALSE

\* the array, permuted by p
Permuted(array, p) == [i \in 1..Len(array) |-> array[p[i]]]

\* the For over the permuted array emits the item outputs of the original
\* array in the permuted order
PermutationPermutes(ctx, p) ==
  LET v == ValueAt(ctx, IterableKeys, 1)
      ctxP == WithValueAt(ctx, IterableKeys, 1, Arr(v.id, Permuted(v.a, p)))
  IN compileFor(TheFor, ctxP, <<>>).out = ItemOutputs(ctx, Permuted(v.a, p), 1)

\* the For emits the item outputs in the order of the array
ForConcatenates ==
  /\ ~result.raised
  /\ result.out = ItemOutputs(data, Items(data), 1) \o compileStatements(AfterFor, data, <<>>).out

\* C7 as stated: the output of a For over an array is the concatenation, in the
\* order of the array, of the body rendered once per element with the item name
\* bound to it, and permuting the array permutes these item outputs and changes
\* none of them
PermutingPermutesOutputs ==
  (calls > 0 /\ IterableIsArray(data)) =>
    /\ ForConcatenates
    /\ \A p \in Permutations(1..Len(Items(data))) : PermutationPermutes(data, p)

\* C7: the output of a For over an array is the concatenation, in the order of
\* the array, of the body rendered once per element with the item name bound to
\* it; when the body does not name the iterated variable itself, permuting the
\* array permutes these item outputs and changes none of them
ForConcatenatesItems ==
  (calls > 0 /\ IterableIsArray(data)) =>
    /\ ForConcatenates
    /\ ~Names(TheFor.nodes, IterableKeys[1]) =>
         \A p \in Permutations(1..Len(Items(data))) : PermutationPermutes(data, p)

\* for(x in items) <{{x}}> over ["p", "q"] was rendered
ForConcatenatesItemsWitness ==
  /\ calls > 0
  /\ IterableIsArray(data)
  /\ Items(data) = <<Str(<<"p">>), Str(<<"q">>)>>
  /\ TheFor.itemName = kX
  /\ ~Names(TheFor.nodes, IterableKeys[1])
  /\ result.out = <<"<", "p", ">", "<", "q", ">">>

\* the value reached before key i of the path
RECURSIVE Reached(_, _, _)
Reached(v, keys, i) == IF i = 0 THEN v ELSE Holds(Reached(v, keys, i - 1), keys[i])

\* the iterable is missing: a key of its path is absent from the object or
\* array reached before it
IterableIsMissing(ctx) ==
  /\ FailingKey(ctx, IterableKeys, 1) > 0
  /\ Reached(ctx, IterableKeys, FailingKey(ctx, IterableKeys, 1) - 1).t \in {"object", "array"}

\* the entries of the log of kind "not_an_array"
NotASequence(log) == SelectSeq(log, LAMBDA e : e.kind = "not_an_array")

\* the For emitted nothing, and logged forLog and nothing else
ForEmitted(forLog) ==
  /\ ~result.raised
  /\ result.out = compileStatements(AfterFor, data, <<>>).out
  /\ result.log = forLog \o compileStatements(AfterFor, data, <<>>).log

\* C8: a For emits nothing and does not render its body when the iterable is
\* an empty array (nothing logged), when it is missing or falsy (no "not an
\* array" diagnostic) and when it is truthy but not an array (exactly one "not
\* an array" diagnostic)
ForEmitsNothing ==
  calls > 0 =>
    /\ (IterableIsArray(data) /\ Items(data) = <<>>) => ForEmitted(<<>>)
    /\ IterableIsMissing(data) =>
         /\ ForEmitted(<<[kind |-> "is_undefined",
                          key |-> IterableKeys[FailingKey(data, IterableKeys, 1)],
                          path |-> IF FailingKey(data, IterableKeys, 1) = 1
                                   THEN IterableKeys[1]
                                   ELSE IterableKeys[1] \o <<".">> \o IterableKeys[2]]>>)
         /\ NotASequence(result.log) = <<>>
    /\ (FailingKey(data, IterableKeys, 1) = 0 /\ ~IsTruthy(ValueAt(data, IterableKeys, 1))) =>
         ForEmitted(<<>>)
    /\ (FailingKey(data, IterableKeys, 1) = 0 /\ IsTruthy(ValueAt(data, IterableKeys, 1))
          /\ ValueAt(data, IterableKeys, 1).t # "array") =>
         ForEmitted(<<[kind |-> "not_an_array"]>>)

\* for(x in o.items) {{m}} was rendered where o.items is the text "pq": only
\* the "not an array" diagnostic was logged, the body would have logged m
ForEmitsNothingWitness ==
  /\ calls > 0
  /\ IterableKeys = <<kO, kItems>>
  /\ data = ForCtx(Str(<<"p", "q">>))
  /\ Len(TheFor.nodes) = 1
  /\ TheFor.nodes[1] = [type |-> "VAR", keys |-> <<kM>>]
  /\ AfterFor = <<>>
  /\ result = [out |-> <<>>, log |-> <<[kind |-> "not_an_array"]>>, raised |-> FALSE]

\* the other cases of C8 happen: an empty array, a missing iterable, a falsy one
ForEmitsNothingEmptyWitness ==
  calls > 0 /\ IterableIsArray(data) /\ Items(data) = <<>> /\ Len(TheFor.nodes) > 0
ForEmitsNothingMissingWitness ==
  calls > 0 /\ IterableIsMissing(data) /\ Len(IterableKeys) = 2 /\ Len(TheFor.nodes) > 0
ForEmitsNothingFalsyWitness ==
  calls > 0 /\ data = ForCtx(Num(0)) /\ Len(TheFor.nodes) > 0

\* the value keys resolve to in ctx; undefined when they do not resolve
Resolved(ctx, keys) ==
  IF FailingKey(ctx, keys, 1) = 0 THEN ValueAt(ctx, keys, 1) ELSE Undefined

RECURSIVE TextOf(_, _, _, _, _)
\* the text of literals and variable references: a reference whose first key
\* is the item name reads the item when inBody, every other one reads ctx
TextOf(stmts, ctx, name, item, inBody) ==
  IF stmts = <<>> THEN <<>>
  ELSE (IF stmts[1].type = "LITERAL" THEN stmts[1].contents
        ELSE IF inBody /\ stmts[1].keys[1] = name
             THEN ToStr(Resolved(item, Tail(stmts[1].keys)))
             ELSE ToStr(Resolved(ctx, stmts[1].keys)))
       \o TextOf(Tail(stmts), ctx, name, item, inBody)

RECURSIVE BodyTexts(_, _, _)
BodyTexts(ctx, array, i) ==
  IF i > Len(array) THEN <<>>
  ELSE TextOf(TheFor.nodes, ctx, TheFor.itemName, array[i], TRUE) \o BodyTexts(ctx, array, i + 1)

IsPlain(stmts) == \A i \in 1..Len(stmts) : stmts[i].type \in {"LITERAL", "VAR"}

\* C9: in the body of a For the item name reads the current element, also when
\* the context binds that name, and every other name reads the context; after
\* endfor, and in a later render, the item name reads the context again
ItemNameShadows ==
  (calls > 0 /\ IterableIsArray(data) /\ IsPlain(TheFor.nodes)) =>
    /\ ~result.raised
    /\ result.out = BodyTexts(data, Items(data), 1)
                      \o TextOf(AfterFor, data, TheFor.itemName, Undefined, FALSE)

\* for(a in items) {{a}}{{b}} then |{{a}} over ["p", "q"], rendered twice: a is
\* the element in the body and "A" after it
ItemNameShadowsWitness ==
  /\ calls = 2
  /\ IterableIsArray(data)
  /\ Items(data) = <<Str(<<"p">>), Str(<<"q">>)>>
  /\ TheFor.itemName = kA
  /\ result.out = <<"p", "B", "q", "B", "|", "A">>

(***************************************************************************)
(* Evaluation of Binary nodes                                              *)
(***************************************************************************)
\* the diagnostic getVarValue logs for the one-key variable key that ctx does
\* not hold
Unresolved(ctx, key) ==
  IF ctx.t \in {"object", "array"}
  THEN [kind |-> "is_undefined", key |-> key, path |-> key]
  ELSE [kind |-> "cant_be_found", key |-> key, path |-> <<>>]

RECURSIVE OperandDiagnostics(_, _, _)
\* one diagnostic for every variable among the tokens lo..hi-1 that ctx does
\* not hold, in the order of the tokens
OperandDiagnostics(lo, hi, ctx) ==
  IF lo >= hi THEN <<>>
  ELSE (IF tokens[lo].type = "IDENTIFIER" /\ Holds(ctx, tokens[lo].lexeme).t = "undefined"
        THEN <<Unresolved(ctx, tokens[lo].lexeme)>> ELSE <<>>)
       \o OperandDiagnostics(lo + 1, hi, ctx)

\* what the body ok{{a}} logs when it is rendered
BodyDiagnostics(ctx) ==
  IF Holds(ctx, kA).t = "undefined" THEN <<Unresolved(ctx, kA)>> ELSE <<>>

\* C11: every operand of a condition is resolved, left to right, whatever the
\* operators and the values on their left: the log of a render holds the
\* diagnostic of every unresolvable operand, in source order, also for b in
\* a && b with a falsy and in a || b with a truthy
BothOperandsEvaluated ==
  calls > 0 =>
    /\ ~result.raised
    /\ result.log = OperandDiagnostics(4, CondEnd, data)
                      \o (IF result.out = <<"z">> THEN <<>> ELSE BodyDiagnostics(data))

\* a || b was rendered with a true and b absent: the body was emitted and the
\* diagnostic for b logged
BothOperandsEvaluatedWitness ==
  /\ calls > 0
  /\ CondEnd = 7
  /\ <<tokens[4].lexeme, tokens[5].type, tokens[6].lexeme>> = <<kA, "OR", kB>>
  /\ data = Obj(1, (kA :> Bool(TRUE)))
  /\ result.out = OkText \o <<"t", "r", "u", "e", "z">>
  /\ result.log = <<[kind |-> "is_undefined", key |-> kB, path |-> kB]>>

\* a && b was rendered with a falsy and b absent: the diagnostic for b was logged
EagerAndWitness ==
  /\ calls > 0
  /\ CondEnd = 7
  /\ <<tokens[4].lexeme, tokens[5].type, tokens[6].lexeme>> = <<kA, "DOUBLE_AND", kB>>
  /\ data = Obj(1, (kA :> Num(0)))
  /\ result.out = <<"z">>
  /\ result.log = <<[kind |-> "is_undefined", key |-> kB, path |-> kB]>>

\* the operators with && and || yielding the boolean of the truthiness of
\* their operands
BooleanOperator(operator, v1, v2) ==
  CASE operator = "AND" -> Bool(IsTruthy(v1) /\ IsTruthy(v2))
    [] operator = "OR" -> Bool(IsTruthy(v1) \/ IsTruthy(v2))
    [] OTHER -> ApplyOperator(operator, v1, v2)

RECURSIVE BooleanFoldValue(_, _)
\* the value of the tokens 4..hi-1 with && and || yielding booleans
BooleanFoldValue(hi, ctx) ==
  IF \E p \in 4..(hi - 1) : IsOperatorAt(p)
  THEN BooleanOperator(TokenAndOperators[tokens[LastOperator(hi)].type],
                       BooleanFoldValue(LastOperator(hi), ctx),
                       compileLogicExpr(UnaryWritten(LastOperator(hi) + 1, hi), ctx, <<>>).v)
  ELSE compileLogicExpr(UnaryWritten(4, hi), ctx, <<>>).v

\* C12: the value of an && or || node is the boolean of its operands'
\* truthiness and never an operand value, also when the node is the left
\* operand of a further operator: the If renders by the value of the
\* condition computed with boolean && and ||
AndOrYieldBoolean ==
  calls > 0 =>
    result.out = (IF IsTruthy(BooleanFoldValue(CondEnd, data)) THEN BodyText(data) ELSE <<>>)
                 \o <<"z">>

\* the part of C12 about a condition that is one && or ||: the body is
\* emitted iff both operands, resp. at least one, are truthy
AndOrOfTwoByTruthiness ==
  (calls > 0 /\ CondEnd = 7 /\ tokens[5].type \in {"DOUBLE_AND", "OR"}) =>
    LET t1 == IsTruthy(Holds(data, tokens[4].lexeme))
        t2 == IsTruthy(Holds(data, tokens[6].lexeme))
    IN (result.out # <<"z">>) = (IF tokens[5].type = "OR" THEN t1 \/ t2 ELSE t1 /\ t2)

\* a && b == c was rendered with a = 5, b = "5" and c = "5": a && b is the
\* text "5", which equals c, and the body was emitted; true does not equal "5"
AndYieldsOperandWitness ==
  /\ calls > 0
  /\ Len(tokens) > 8
  /\ CondEnd = 9
  /\ <<tokens[4].lexeme, tokens[5].type, tokens[6].lexeme, tokens[7].type, tokens[8].lexeme>>
       = <<kA, "DOUBLE_AND", kB, "DOUBLE_EQUAL", kC>>
  /\ data = ABC(Num(5), Str(<<"5">>), Str(<<"5">>))
  /\ result.out = OkText \o <<"5", "z">>
  /\ ~IsTruthy(BooleanFoldValue(CondEnd, data))

\* the value of an operand token: a literal is itself, a variable is what ctx holds
OperandValue(tok, ctx) ==
  CASE tok.type = "NUMBER" -> Num(DigitsValue(tok.lexeme))
    [] tok.type = "STRING" -> Str(tok.lexeme)
    [] OTHER -> Holds(ctx, tok.lexeme)

\* the same type and the same value; an object or array is the same value as
\* itself only
SameTypeAndValue(v1, v2) ==
  /\ v1.t = v2.t
  /\ v1.t = "boolean" => v1.b = v2.b
  /\ v1.t = "number" => v1.n = v2.n
  /\ v1.t = "string" => v1.s = v2.s
  /\ v1.t \in {"object", "array"} => v1.id = v2.id

\* C13: x == y is true exactly when the values of x and y have the same type
\* and the same value, and x != y exactly when x == y is not, for variables and
\* literals alike: the If over x == y or x != y emits its body accordingly
EqualityIsStrict ==
  (calls > 0 /\ CondEnd = 7 /\ tokens[5].type \in {"DOUBLE_EQUAL", "BANG_EQUAL"}) =>
    (result.out # <<"z">>) =
      (SameTypeAndValue(OperandValue(tokens[4], data), OperandValue(tokens[6], data))
         = (tokens[5].type = "DOUBLE_EQUAL"))

\* a == "5" was rendered with a the number 5: nothing was emitted for the If
EqualityIsStrictWitness ==
  /\ calls > 0
  /\ CondEnd = 7
  /\ tokens[4].lexeme = kA
  /\ tokens[5].type = "DOUBLE_EQUAL"
  /\ tokens[6].type = "STRING"
  /\ tokens[6].lexeme = <<"5">>
  /\ data = ABC(Num(5), Str(<<"5">>), Num(0))
  /\ result.out = <<"z">>

\* b != "5" was rendered with b the text "5", and a == a with a an array
EqualityOfTextsWitness ==
  /\ calls > 0
  /\ CondEnd = 7
  /\ tokens[4].lexeme = kB
  /\ tokens[5].type = "BANG_EQUAL"
  /\ tokens[6].type = "STRING"
  /\ data = ABC(Num(5), Str(<<"5">>), Num(0))
  /\ result.out = <<"z">>
EqualityOfArraysWitness ==
  /\ calls > 0
  /\ CondEnd = 7
  /\ tokens[4].lexeme = kB
  /\ tokens[5].type = "DOUBLE_EQUAL"
  /\ tokens[6].lexeme = kB
  /\ data = ABC(NullV, Arr(2, <<>>), Obj(3, <<>>))
  /\ result.out # <<"z">>

(***************************************************************************)
(* SpecRegions: expression regions, well-formed and malformed, with the    *)
(* literal text "a" between them                                           *)
(***************************************************************************)
Region(t) == OPEN \o <<" ">> \o t \o <<" ">> \o CLOSE

\* the regions and whether the grammar rejects them; every region ends with
\* "}}" or with the end of its line
Regions ==
  << [text |-> Region(kFoo), malformed |-> FALSE],
     [text |-> Region(<<"1", "7">>), malformed |-> TRUE],
     [text |-> Region(kFoo \o <<".">>), malformed |-> TRUE],
     [text |-> OPEN \o <<" ">> \o CLOSE, malformed |-> TRUE],
     [text |-> Region(kFoo \o <<"[">>), malformed |-> TRUE],
     [text |-> Region(<<"i", "f", "(">>), malformed |-> TRUE],
     [text |-> Region(kFoo \o <<" ">> \o kBar), malformed |-> TRUE],
     [text |-> Region(<<"f", "o", "r", "(", "x", " ", "i", "n", " ", ")">>), malformed |-> TRUE],
     [text |-> OPEN \o <<" ">> \o kFoo \o <<NL>>, malformed |-> TRUE],
     [text |-> Region(<<QUOTE, "s", QUOTE>>), malformed |-> TRUE],
     [text |-> Region(<<"!">> \o kFoo), malformed |-> TRUE],
     [text |-> Region(<<"#">>), malformed |-> TRUE],
     [text |-> Region(<<"2", "h", "e", "l", "l", "o">>), malformed |-> TRUE],
     [text |-> OPEN \o CLOSE, malformed |-> TRUE],
     [text |-> Region(<<"(">> \o kFoo \o <<")">>), malformed |-> TRUE],
     [text |-> Region(<<"=", "=", " ">> \o kFoo), malformed |-> TRUE],
     [text |-> Region(<<"e", "n", "d", "i", "f">>), malformed |-> TRUE],
     [text |-> Region(<<"e", "n", "d", "f", "o", "r">>), malformed |-> TRUE],
     [text |-> Region(<<"i", "n", " ">> \o kFoo), malformed |-> TRUE] >>

\* bound on the number of regions of a template
MaxRegions == 2

RegionChoices == SeqsUpTo(1..Len(Regions), MaxRegions) \ {<<>>}

RECURSIVE RegionsText(_)
\* the regions of the choice, "a" between every two of them
RegionsText(choice) ==
  IF Len(choice) = 1 THEN Regions[choice[1]].text
  ELSE Regions[choice[1]].text \o <<"a">> \o RegionsText(Tail(choice))

RegionSources == { RegionsText(choice) : choice \in RegionChoices }

InitRegions ==
  /\ file \in RegionSources
  /\ \E i \in 1..Len(Ctxs) : data = Ctxs[i]
  /\ InitCompiler

SpecRegions == InitRegions /\ [][Next]_vars

\* the regions the text was assembled from
ChoiceOf(text) == CHOOSE choice \in RegionChoices : RegionsText(choice) = text

RECURSIVE MalformedCount(_)
MalformedCount(choice) ==
  IF choice = <<>> THEN 0
  ELSE (IF Regions[choice[1]].malformed THEN 1 ELSE 0) + MalformedCount(Tail(choice))

\* C14: a template with k malformed regions separated by literal text is
\* compiled with exactly k diagnostics, one per region
OneDiagnosticPerRegion ==
  pc = "compiled" => Len(logged) = MalformedCount(ChoiceOf(file))

\* the regions at which parseExpr throws or parse misses the closing "}}"
Rejected == (2..9) \cup {13, 14}

\* the part of C14 that holds: among well-formed regions and regions the
\* parser rejects, every rejected region is reported once, whatever precedes it
RejectedRegionsLogOnce ==
  (pc = "compiled" /\ \A i \in 1..Len(ChoiceOf(file)) : ChoiceOf(file)[i] \in Rejected \cup {1}) =>
    Len(logged) = MalformedCount(ChoiceOf(file))

\* {{ "s" }}a{{ 17 }} was compiled: two malformed regions, one diagnostic
SilentRegionWitness ==
  /\ pc = "compiled"
  /\ file = RegionsText(<<10, 2>>)
  /\ Len(logged) = 1
  /\ logged[1].message = "Expected expression before number"

(***************************************************************************)
(* SpecBlocks: openers and closers of If and For in every order            *)
(***************************************************************************)
BlockPieces ==
  { OPEN \o <<"i", "f", "(">> \o kFoo \o <<")">> \o CLOSE,
    OPEN \o <<"f", "o", "r", "(", "x", " ", "i", "n", " ">> \o kItems \o <<")">> \o CLOSE,
    OPEN \o <<"e", "n", "d", "i", "f">> \o CLOSE,
    OPEN \o <<"e", "n", "d", "f", "o", "r">> \o CLOSE,
    <<"a">>,
    <<NL>> }

\* bound on the number of pieces of a template of SpecBlocks
MaxPieces == 4

BlockSources == { Flatten(ss) : ss \in SeqsUpTo(BlockPieces, MaxPieces) }

InitBlocks ==
  /\ file \in BlockSources
  /\ \E i \in 1..Len(Ctxs) : data = Ctxs[i]
  /\ InitCompiler

SpecBlocks == InitBlocks /\ [][Next]_vars

RECURSIVE OpenAt(_, _)
\* the indices of the keyword tokens of the openers that are open after the
\* tokens 1..i, the innermost first: "{{ endif" closes the innermost opener
\* when that is an if, "{{ endfor" when that is a for
OpenAt(i, open) ==
  IF i > Len(tokens) THEN open
  ELSE IF i > 1 /\ tokens[i - 1].type = "OPEN_EXPR" /\ tokens[i].type \in {"IF", "FOR"}
  THEN OpenAt(i + 1, <<i>> \o open)
  ELSE IF /\ i > 1 /\ tokens[i - 1].type = "OPEN_EXPR" /\ open # <<>>
          /\ \/ tokens[i].type = "ENDIF" /\ tokens[open[1]].type = "IF"
             \/ tokens[i].type = "ENDFOR" /\ tokens[open[1]].type = "FOR"
  THEN OpenAt(i + 1, Tail(open))
  ELSE OpenAt(i + 1, open)

Unterminated(i) ==
  [message |-> IF tokens[i].type = "IF" THEN "Unterminated if statement"
               ELSE "Unterminated for statement",
   line |-> tokens[i].line, col |-> tokens[i].col]

\* C15: every opener that is still open at the end of the input is reported
\* exactly once, with the line and the column span of its own keyword token,
\* nested ones each on their own; nothing else is reported
UnterminatedReportedOnce ==
  pc = "compiled" =>
    LET open == OpenAt(1, <<>>)
    IN logged = [k \in 1..Len(open) |-> Unterminated(open[k])]

\* a for on line 1 and an if on line 2 inside it were both left open
UnterminatedReportedOnceWitness ==
  /\ pc = "compiled"
  /\ Len(logged) = 2
  /\ logged[1] = [message |-> "Unterminated if statement", line |-> 2, col |-> <<3, 5>>]
  /\ logged[2] = [message |-> "Unterminated for statement", line |-> 1, col |-> <<3, 6>>]

\* the diagnostic with this message that carries the line and the column
\* span of token i
TokenAnchored(i, message) ==
  [message |-> message, line |-> tokens[i].line, col |-> tokens[i].col]

ReportedOnce(e) == Cardinality({k \in 1..Len(logged) : logged[k] = e}) = 1

UnclosedBodies ==
  { <<>>, <<" ">>, <<" ">> \o kFoo, <<" ">> \o kFoo \o <<".">> \o kBar, <<" ", "1", "7">>,
    <<" ", QUOTE, "s", QUOTE>>, <<" ", "!">> \o kFoo, <<" ", "i", "f", "(">> \o kFoo \o <<")">>,
    <<" ">> \o kFoo \o <<"[", "0">>, <<" ", "=", "=">> }

UnclosedSources ==
  { before \o OPEN \o body \o after :
      before \in { <<>>, <<"a">>, Region(kFoo) },
      body \in UnclosedBodies,
      after \in { <<>>, <<NL, "a">> } }

InitUnclosed ==
  /\ file \in UnclosedSources
  /\ \E i \in 1..Len(Ctxs) : data = Ctxs[i]
  /\ InitCompiler

SpecUnclosed == InitUnclosed /\ [][Next]_vars

\* the messages of the lexer; every other diagnostic is the parser's
LexerMessages ==
  { "Unexpected character", "Missing terminating \" character", "Expected character \"=\"",
    "Expected character \"&\"", "Expected character \"|\"" }

\* C17: a template with an unclosed "{{" gets at least one diagnostic from the
\* parser and no render function, whatever follows the "{{"
UnclosedIsReported ==
  pc = "compiled" =>
    /\ \E k \in 1..Len(logged) : logged[k].message \notin LexerMessages
    /\ view = NoView

\* the template "{{" was compiled without a diagnostic and rendered
UnclosedUnreportedWitness ==
  /\ calls > 0
  /\ file = OPEN
  /\ logged = <<>>
  /\ result = [out |-> <<>>, log |-> <<>>, raised |-> FALSE]

\* the part of C17 that holds: an unclosed "{{" followed by a name, a number,
\* if or for is reported by the parser
UnclosedAfterKnownToken ==
  (pc = "compiled" /\ \E i \in 2..Len(tokens) :
     /\ tokens[i - 1].type = "OPEN_EXPR"
     /\ tokens[i].type \in {"IDENTIFIER", "NUMBER", "IF", "FOR"}
     /\ \A j \in i..Len(tokens) : tokens[j].type # "CLOSE_EXPR") =>
    /\ \E k \in 1..Len(logged) : logged[k].message \notin LexerMessages
    /\ view = NoView

\* C18: a template with a region that is no Variable, If or For, such as one
\* that starts with a string, "!", "(", an operator or a stray endif, endfor
\* or in, gets at least one diagnostic and no render function
OnlyGrammaticalSourcesRender ==
  (pc = "compiled" /\ MalformedCount(ChoiceOf(file)) > 0) =>
    /\ logged # <<>>
    /\ view = NoView

\* the template {{ "s" }}a{{ foo }} was compiled without a diagnostic and
\* rendered the text a and the value of foo
UngrammaticalRenderedWitness ==
  /\ calls > 0
  /\ file = RegionsText(<<10, 1>>)
  /\ logged = <<>>
  /\ data = Ctxs[2]
  /\ result.out = <<"a">> \o kBar

\* the regions parseExpr steps over without a diagnostic
Silent == {10, 11} \cup (15..19)

\* every region of Silent alone is compiled without a diagnostic
SilentRegionsWitness ==
  pc = "compiled" /\ logged = <<>> /\ view # NoView /\ file = Regions[19].text
SilentRegionsUnreported ==
  (pc = "compiled" /\ Len(ChoiceOf(file)) = 1 /\ ChoiceOf(file)[1] \in Silent) =>
    (logged = <<>> /\ view # NoView)

(***************************************************************************)
(* SpecMissing: one region in which the parser misses a token              *)
(***************************************************************************)
\* the region, the message of its diagnostic and the number of tokens of the
\* region the parser consumed before it missed the next; the first is well-formed
MissingCases ==
  << [text |-> <<"{", "{", " ", "f", "o", "o", " ", "}", "}">>,
      message |-> "", consumed |-> 0],
     [text |-> <<"{", "{", " ", "f", "o", "o", ".", " ", "}", "}">>,
      message |-> "Expected property name after \".\"", consumed |-> 3],
     [text |-> <<"{", "{", " ", "f", "o", "o", "[", " ", "}", "}">>,
      message |-> "Expected array index after \"[\"", consumed |-> 3],
     [text |-> <<"{", "{", " ", "f", "o", "o", "[", "0", " ", "}", "}">>,
      message |-> "Expected \"]\" after index", consumed |-> 4],
     [text |-> <<"{", "{", " ", "f", "o", "o", " ", "b", "a", "r", " ", "}", "}">>,
      message |-> "Expected closing \"}}\"", consumed |-> 2],
     [text |-> <<"{", "{", " ", "f", "o", "o">>,
      message |-> "Expected closing \"}}\"", consumed |-> 2],
     [text |-> <<"{", "{", " ", "i", "f", " ", "f", "o", "o", " ", "}", "}">>,
      message |-> "Expected \"(\" after \"if\"", consumed |-> 2],
     [text |-> <<"{", "{", " ", "i", "f", "(", " ", ")", " ", "}", "}">>,
      message |-> "Expected expression", consumed |-> 3],
     [text |-> <<"{", "{", " ", "i", "f", "(", "!", ")", " ", "}", "}">>,
      message |-> "Expected expression", consumed |-> 4],
     [text |-> <<"{", "{", " ", "i", "f", "(", "f", "o", "o", " ", "=", "=", " ", ")", " ", "}", "}">>,
      message |-> "Expected expression", consumed |-> 5],
     [text |-> <<"{", "{", " ", "i", "f", "(", "f", "o", "o", " ", "b", "a", "r", ")", " ", "}", "}">>,
      message |-> "Expected operator after expression", consumed |-> 4],
     [text |-> <<"{", "{", " ", "i", "f", "(", "f", "o", "o", " ", "}", "}">>,
      message |-> "Expected \")\" after condition", consumed |-> 4],
     [text |-> <<"{", "{", " ", "i", "f", "(", "f", "o", "o", ")", NL>>,
      message |-> "Expected \"}}\" after \"if\" statement", consumed |-> 5],
     [text |-> <<"{", "{", " ", "f", "o", "r", " ", "x", " ", "}", "}">>,
      message |-> "Expected \"(\" after \"for\"", consumed |-> 2],
     [text |-> <<"{", "{", " ", "f", "o", "r", "(", " ", "i", "n", " ", "}", "}">>,
      message |-> "Expected declaration after \"(\"", consumed |-> 3],
     [text |-> <<"{", "{", " ", "f", "o", "r", "(", "x", " ", "f", "o", "o", ")", " ", "}", "}">>,
      message |-> "Expected \"in\" keyword after declaration", consumed |-> 4],
     [text |-> <<"{", "{", " ", "f", "o", "r", "(", "x", " ", "i", "n", " ", ")", " ", "}", "}">>,
      message |-> "Expected variable after \"in\"", consumed |-> 5],
     [text |-> <<"{", "{", " ", "f", "o", "r", "(", "x", " ", "i", "n", " ", "f", "o", "o", " ", "}", "}">>,
      message |-> "Expected \")\" after expression", consumed |-> 6],
     [text |-> <<"{", "{", " ", "f", "o", "r", "(", "x", " ", "i", "n", " ", "f", "o", "o", ")", NL>>,
      message |-> "Expected \"}}\" after \"for\" statement", consumed |-> 7],
     [text |-> <<"{", "{", " ", "h", "e", "l", "l", "o", ".", " ", "}", "}">>,
      message |-> "Expected property name after \".\"", consumed |-> 3],
     [text |-> <<"{", "{", " ", "m", "e", "s", "s", "a", "g", "e">>,
      message |-> "Expected closing \"}}\"", consumed |-> 2] >>

\* what precedes the region: nothing, text on the same line, text on the line before
Befores == << <<>>, <<"a">>, <<"a", NL>>, <<"a", NL, "a", "a">> >>

MissingSources ==
  { Befores[b] \o MissingCases[m].text : b \in 1..Len(Befores), m \in 1..Len(MissingCases) }

InitMissing ==
  /\ file \in MissingSources
  /\ \E i \in 1..Len(Ctxs) : data = Ctxs[i]
  /\ InitCompiler

SpecMissing == InitMissing /\ [][Next]_vars

\* the case the text ends with, and the index of the "{{" of its region
CaseOf(text) ==
  CHOOSE m \in 1..Len(MissingCases) :
    \E b \in 1..Len(Befores) : Befores[b] \o MissingCases[m].text = text
RegionStart == CHOOSE i \in 1..Len(tokens) : tokens[i].type = "OPEN_EXPR"

\* the last token the parser consumed before it missed one
LastConsumed == tokens[RegionStart + MissingCases[CaseOf(file)].consumed - 1]

\* C19: the diagnostic for a missing token carries the line of the last
\* consumed token and one column, the exclusive end column of that token
MissingIsPositionAnchored ==
  (pc = "compiled" /\ CaseOf(file) > 1) =>
    logged = <<[message |-> MissingCases[CaseOf(file)].message,
                line |-> LastConsumed.line,
                col |-> <<LastConsumed.col[2]>>]>>

\* a, then {{ if(foo }} on the second line: ")" is missing at line 2 column 10
MissingIsPositionAnchoredWitness ==
  /\ pc = "compiled"
  /\ CaseOf(file) = 12
  /\ LastConsumed.lexeme = kFoo
  /\ logged = <<[message |-> "Expected \")\" after condition", line |-> 2, col |-> <<10>>]>>

\* {{ hello. }} was compiled: line 1, column 10
MissingExamplesWitness ==
  /\ pc = "compiled"
  /\ file = MissingCases[20].text
  /\ logged = <<[message |-> "Expected property name after \".\"", line |-> 1, col |-> <<10>>]>>

\* {{ message was compiled: line 1, column 11
MissingCloseExampleWitness ==
  /\ pc = "compiled"
  /\ file = MissingCases[21].text
  /\ logged = <<[message |-> "Expected closing \"}}\"", line |-> 1, col |-> <<11>>]>>

(***************************************************************************)
(* SpecTwice: the same file compiled again by the same Compiler, and the   *)
(* render function called with one context after another                   *)
(***************************************************************************)
\* bounds on the pieces of a template, on the calls of the render function
\* and on the diagnostics after which the file is not compiled again
MaxTwiceSegs == 2
MaxRenders == 3
MaxLogged == 3

TwiceSources ==
  { Flatten(ss) : ss \in SeqsUpTo(Fragments, MaxTwiceSegs) }
    \cup { Flatten(<<f, OPEN \o kX \o CLOSE, OPEN \o kFoo \o CLOSE, g>>) :
             f \in Fragments, g \in Fragments }

InitTwice ==
  /\ file \in TwiceSources
  /\ \E i \in 1..Len(Ctxs) : data = Ctxs[i]
  /\ InitCompiler

\* compileFile is called again with the same path on the same Compiler
CompileFileAgain ==
  /\ pc = "compiled"
  /\ Len(logged) < MaxLogged
  /\ pc' = "reading"
  /\ UNCHANGED <<file, data, buffer, hadErrors, logged, tokens, scanEnd, statements,
                 cursor, view, result, calls, pending, returned>>

\* the caller invokes the render function with another context: view(args)
RenderWith ==
  /\ pc = "compiled"
  /\ view.type = "view"
  /\ calls < MaxRenders
  /\ \E i \in 1..Len(Ctxs) :
       /\ data' = Ctxs[i]
       /\ result' = compileStatements(view.statements, Ctxs[i], <<>>)
  /\ calls' = calls + 1
  /\ UNCHANGED <<file, pc, buffer, hadErrors, logged, tokens, scanEnd, statements,
                 cursor, view, pending, returned>>

NextTwice == CompileFileBegin \/ CompileFileResume \/ CompileFileAgain \/ Render \/ RenderWith

SpecTwice == InitTwice /\ [][NextTwice]_vars

\* the file compiled by a new Compiler
Fresh == Compilation(file, [logged |-> <<>>, hadErrors |-> FALSE]).parsed

RECURSIVE Repeated(_, _)
Repeated(ss, k) == IF k = 0 THEN <<>> ELSE ss \o Repeated(ss, k - 1)

RenderKeepsStatements ==
  [][(pc = "compiled" /\ pc' = "compiled") => (statements' = statements /\ view' = view)]_vars

RenderedThriceWitness ==
  /\ calls = MaxRenders
  /\ pc = "compiled"
  /\ Len(statements) = 1
  /\ statements[1].type = "FOR"
  /\ data = Ctxs[2]
  /\ result.out = <<"a">> \o kBar \o <<"0">> \o kBar

(***************************************************************************)
(* SpecSeveral: several compileFile calls on one Compiler, each for a file *)
(* of its own, suspended at the await of the read and resumed in any order *)
(***************************************************************************)
\* bound on the number of compileFile calls on the Compiler
MaxCompilations == 2

SeveralSources == Fragments

InitSeveral ==
  /\ file = <<>>
  /\ data = Undefined
  /\ InitCompiler

\* compileFile(filePath) up to its await: the call is suspended on the read
\* of its file, whatever other calls are suspended already
CompileFileCall ==
  /\ Cardinality(pending) + Len(returned) < MaxCompilations
  /\ \E f \in SeveralSources :
       pending' = pending \cup {[id |-> Cardinality(pending) + Len(returned) + 1, file |-> f]}
  /\ pc' = "reading"
  /\ UNCHANGED <<file, data, buffer, hadErrors, logged, tokens, scanEnd, statements,
                 cursor, view, result, calls, returned>>

\* one suspended call resumes after its await and runs to its return: it
\* stores its text in this.buffer, scans, parses, and tests this.hadErrors
CompileFileReturn ==
  /\ \E p \in pending :
       \E r \in {Compilation(p.file, [logged |-> logged, hadErrors |-> hadErrors])} :
         /\ file' = p.file
         /\ buffer' = p.file
         /\ tokens' = r.lexer.tokens
         /\ scanEnd' = r.lexer.current
         /\ statements' = r.parsed.nodes
         /\ cursor' = r.parsed.c
         /\ logged' = r.parsed.d.logged
         /\ hadErrors' = r.parsed.d.hadErrors
         /\ view' = IF r.parsed.d.hadErrors THEN NoView ELSE View(r.parsed.nodes)
         /\ pending' = pending \ {p}
         /\ returned' = Append(returned,
              [id |-> p.id, file |-> p.file,
               reported |-> SubSeq(r.parsed.d.logged, Len(logged) + 1, Len(r.parsed.d.logged)),
               view |-> IF r.parsed.d.hadErrors THEN NoView ELSE View(r.parsed.nodes)])
         /\ pc' = IF pending = {p} THEN "compiled" ELSE "reading"
  /\ UNCHANGED <<data, result, calls>>

NextSeveral == CompileFileCall \/ CompileFileReturn

SpecSeveral == InitSeveral /\ [][NextSeveral]_vars

\* C21: every compileFile call returns a render function exactly when its own
\* source was reported no diagnostic, whatever the other calls on the same
\* Compiler compiled before it or while it was suspended
CompilationsAreIndependent ==
  \A k \in 1..Len(returned) :
    (returned[k].view.type = "view") <=> (returned[k].reported = <<>>)

\* what the calls on one Compiler do return: null from the first call on that
\* reported a diagnostic, in the order of return
NullOnceAnyReported ==
  \A k \in 1..Len(returned) :
    (returned[k].view.type = "null") <=> (\E j \in 1..k : returned[j].reported # <<>>)

\* the call for the text a started first and returned after the call for
\* {{ 17 }}: nothing reported for it, and null returned
ValidAfterInvalidIsNull ==
  /\ Len(returned) = 2
  /\ returned[1].id = 2
  /\ returned[1].file = OPEN \o <<" ","1","7"," ">> \o CLOSE
  /\ returned[2].file = <<"a">>
  /\ returned[2].reported = <<>>
  /\ returned[2].view = NoView

(***************************************************************************)
(* SpecStrings: one string literal in an expression region, closed by a    *)
(* quote or cut by the end of the line or of the input                     *)
(***************************************************************************)
\* bound on the length of the text after the opening quote
MaxStr == 2

StringBefores ==
  { OPEN \o <<" ">>, OPEN, <<"a", NL>> \o OPEN \o <<" ", "i", "f", "(">>,
    OPEN \o <<" ", "x", " ", "=", "=", " ">> }

StringBodies ==
  SeqsUpTo({"a", " ", "}", "{"}, MaxStr) \cup { kFoo \o <<" ">> \o CLOSE }

StringEnds ==
  { <<QUOTE, " ">> \o CLOSE, <<QUOTE>>, <<QUOTE, NL, "b">>, <<>>, <<NL, "b">>,
    <<NL, " ">> \o CLOSE }

StringSources ==
  { b \o <<QUOTE>> \o t \o e : b \in StringBefores, t \in StringBodies, e \in StringEnds }

InitStrings ==
  /\ file \in StringSources
  /\ \E i \in 1..Len(Ctxs) : data = Ctxs[i]
  /\ InitCompiler

SpecStrings == InitStrings /\ [][Next]_vars

\* the line of the character s[i], and its 1-based column on that line
LineAt(s, i) == 1 + Cardinality({j \in 1..(i - 1) : s[j] = NL})
ColAt(s, i) == Cardinality({j \in 1..i : \A k \in j..(i - 1) : s[k] # NL})

\* the opening quote of the file, and the first quote or newline after it
\* (one past the end of the file if there is none)
QuoteAt == CHOOSE i \in 1..Len(file) : file[i] = QUOTE /\ \A j \in 1..(i - 1) : file[j] # QUOTE
StringStop ==
  CHOOSE i \in (QuoteAt + 1)..(Len(file) + 1) :
    /\ i <= Len(file) => file[i] \in {QUOTE, NL}
    /\ \A j \in (QuoteAt + 1)..(i - 1) : file[j] \notin {QUOTE, NL}
Terminated == StringStop <= Len(file) /\ file[StringStop] = QUOTE

StringTokens == {i \in 1..Len(tokens) : tokens[i].type = "STRING"}
TheString == CHOOSE i \in StringTokens : TRUE
LexicalDiagnostics == {k \in 1..Len(logged) : logged[k].message \in LexerMessages}

\* a string closed by a quote: one STRING token with the text between the
\* quotes, on the line and the columns of the quoted text, no diagnostic
TerminatedString ==
  /\ Cardinality(StringTokens) = 1
  /\ tokens[TheString].lexeme = SubSeq(file, QuoteAt + 1, StringStop - 1)
  /\ tokens[TheString].line = LineAt(file, QuoteAt)
  /\ tokens[TheString].col =
       <<ColAt(file, QuoteAt), ColAt(file, QuoteAt) + (StringStop - QuoteAt) + 1>>
  /\ LexicalDiagnostics = {}

\* a string cut by the end of the line or of the input: one diagnostic, on the
\* line of the quote, from the column of the quote to the column of the cursor,
\* which stands on the newline or at the end of the input; the newline starts
\* the next token
UnterminatedString ==
  /\ Cardinality(LexicalDiagnostics) = 1
  /\ \A k \in LexicalDiagnostics :
       logged[k] = [message |-> "Missing terminating \" character",
                    line |-> LineAt(file, QuoteAt),
                    col |-> <<ColAt(file, QuoteAt),
                              ColAt(file, QuoteAt) + (StringStop - QuoteAt)>>]
  /\ \A i \in StringTokens : tokens[i].line = LineAt(file, QuoteAt)
  /\ StringStop <= Len(file) =>
       /\ TheString < Len(tokens)
       /\ tokens[TheString + 1].type = "LITERAL"
       /\ tokens[TheString + 1].lexeme = SubSeq(file, StringStop, Len(file))
  /\ StringStop > Len(file) => tokens[Len(tokens)].type = "EOF" /\ scanEnd = Len(file)

\* C22: a string closed by a quote yields one STRING token holding the text
\* between the quotes and no diagnostic; a string with no closing quote before
\* the end of the line or of the input yields exactly one lexical diagnostic,
\* on its line, from the column of the opening quote to the column of the scan
\* cursor, and the scan of the string stops before the newline
StringsAreScanned ==
  pc = "compiled" => IF Terminated THEN TerminatedString ELSE UnterminatedString

\* {{ "foo }} was reported on line 1, columns 4 to 11
StringsAreScannedWitness ==
  /\ pc = "compiled"
  /\ file = OPEN \o <<" ", QUOTE>> \o kFoo \o <<" ">> \o CLOSE
  /\ logged = <<[message |-> "Missing terminating \" character", line |-> 1,
                 col |-> <<4, 11>>]>>

\* a, newline, {{ if("a }, newline, b: the string is cut on line 2 and the
\* newline after it starts the next token
StringCutByNewlineWitness ==
  /\ pc = "compiled"
  /\ file = <<"a", NL>> \o OPEN \o <<" ", "i", "f", "(", QUOTE, "a", "}", NL, "b">>
  /\ tokens[Len(tokens) - 1] = [type |-> "LITERAL", lexeme |-> <<NL, "b">>, line |-> 3,
                                col |-> <<1, 2>>]
  /\ logged[1].line = 2 /\ logged[1].col = <<7, 10>>

\* {{ x == "a}" }} was scanned to a STRING token with the lexeme a}
TerminatedStringWitness ==
  /\ pc = "compiled"
  /\ file = OPEN \o <<" ", "x", " ", "=", "=", " ", QUOTE, "a", "}", QUOTE, " ">> \o CLOSE
  /\ tokens[TheString].lexeme = <<"a", "}">>
  /\ LexicalDiagnostics = {}

(***************************************************************************)
(* SpecOperators: one operator character in an expression region, followed *)
(* by each kind of character                                               *)
(***************************************************************************)
OperatorChars == {"=", "&", "|", "!", ">", "<"}
DoubledChars == {"=", "&", "|"}

OperatorBefores ==
  { OPEN \o <<" ", "i", "f", "(", "x", " ">>, <<"a", NL>> \o OPEN \o <<" ">>, OPEN \o <<"x">> }

\* what may follow the operator character, besides nothing and the character
\* again
FollowChars == {"=", "$", " ", "a", "}", NL}

OperatorRests == { <<>>, <<" ", "y", ")", " ">> \o CLOSE }

\* the operator character c and what follows it
OperatorAndFollow ==
  UNION { { <<c>>, <<c, c>> } \cup { <<c, x>> : x \in FollowChars } : c \in OperatorChars }

OperatorSources ==
  { b \o o \o r : b \in OperatorBefores, o \in OperatorAndFollow, r \in OperatorRests }

InitOperators ==
  /\ file \in OperatorSources
  /\ \E i \in 1..Len(Ctxs) : data = Ctxs[i]
  /\ InitCompiler

SpecOperators == InitOperators /\ [][Next]_vars

\* the operator character of the file and the character after it
OpAt ==
  CHOOSE i \in 1..Len(file) :
    file[i] \in OperatorChars /\ \A j \in 1..(i - 1) : file[j] \notin OperatorChars
OpFollow == IF OpAt < Len(file) THEN file[OpAt + 1] ELSE UNDEF_CHAR

\* the tokens that cover the operator character
TokensOnOp ==
  { i \in 1..Len(tokens) :
      /\ tokens[i].line = LineAt(file, OpAt)
      /\ tokens[i].col[1] <= ColAt(file, OpAt)
      /\ ColAt(file, OpAt) < tokens[i].col[2] }

OpToken(type, width) ==
  /\ Cardinality(TokensOnOp) = 1
  /\ \A i \in TokensOnOp :
       /\ tokens[i].type = type
       /\ tokens[i].lexeme = SubSeq(file, OpAt, OpAt + width - 1)
       /\ tokens[i].col = <<ColAt(file, OpAt), ColAt(file, OpAt) + width>>
  /\ LexicalDiagnostics = {}

DoubledType == ("=" :> "DOUBLE_EQUAL") @@ ("&" :> "DOUBLE_AND") @@ ("|" :> "OR")
SingleType == ("!" :> "BANG") @@ (">" :> "GREATHER") @@ ("<" :> "LESS")
WithEqualType == ("!" :> "BANG_EQUAL") @@ (">" :> "GREATHER_OR_EQ") @@ ("<" :> "LESS_OR_EQ")

\* "=", "&" or "|" alone: one lexical diagnostic, on the line of the character
\* at the column after it, and no token for the character
AloneIsReported ==
  /\ TokensOnOp = {}
  /\ Cardinality(LexicalDiagnostics) = 1
  /\ \A k \in LexicalDiagnostics :
       logged[k] = [message |-> <<"Expected character \"=\"", "Expected character \"&\"",
                                  "Expected character \"|\"">>[
                                    CHOOSE n \in 1..3 : <<"=", "&", "|">>[n] = file[OpAt]],
                    line |-> LineAt(file, OpAt),
                    col |-> <<ColAt(file, OpAt) + 1>>]

OperatorScanned ==
  IF file[OpAt] \in DoubledChars
  THEN IF OpFollow = file[OpAt] THEN OpToken(DoubledType[file[OpAt]], 2) ELSE AloneIsReported
  ELSE IF OpFollow = "=" THEN OpToken(WithEqualType[file[OpAt]], 2)
       ELSE OpToken(SingleType[file[OpAt]], 1)

\* C23: "=", "&" or "|" not followed by the same character yields exactly one
\* lexical diagnostic and no token, on the line of the character at the column
\* after it; "==", "&&", "||" yield one token; "!", ">", "<" yield a token of
\* one character, or of two when "=" follows
OperatorsAreScanned == pc = "compiled" => OperatorScanned

\* the same with the character after a lone "=", "&" or "|" on its line
OperatorsAreScannedOnLine == (pc = "compiled" /\ OpFollow # NL) => OperatorScanned

\* {{ if(x = and a newline: the diagnostic is reported on line 2, column 0
AloneBeforeNewlineWitness ==
  /\ pc = "compiled"
  /\ file = OPEN \o <<" ", "i", "f", "(", "x", " ", "=", NL>>
  /\ LexicalDiagnostics = {1}
  /\ logged[1] = [message |-> "Expected character \"=\"", line |-> 2, col |-> <<0>>]

\* {{ if(x =$ y) }}: reported on line 1 at column 10, the column after the "="
AloneOnLineWitness ==
  /\ pc = "compiled"
  /\ file = OPEN \o <<" ", "i", "f", "(", "x", " ", "=", "$", " ", "y", ")", " ">> \o CLOSE
  /\ logged[1] = [message |-> "Expected character \"=\"", line |-> 1, col |-> <<10>>]

(***************************************************************************)
(* SpecLexErrors: one character the scanner reports, or a space in its     *)
(* place, followed by the rest of the line                                 *)
(***************************************************************************)
\* "=", "&", "|" alone and a character outside the token alphabet
BadChars == {"=", "&", "|", "#"}

LexErrorBefores ==
  { OPEN \o <<" ", "a", " ">>, <<"b", NL>> \o OPEN \o <<" ", "i", "f", "(", "a", " ">> }

LexErrorRests ==
  { CLOSE, <<" ">> \o CLOSE, <<"#">> \o CLOSE, <<"b", " ">> \o CLOSE, <<NL, "b">>, <<>>,
    <<"}">>, <<" ", "|", "b", ")">> \o CLOSE, <<QUOTE, "s", QUOTE>> \o CLOSE }

LexErrorSources ==
  { b \o <<c>> \o r : b \in LexErrorBefores, c \in BadChars \cup {" "}, r \in LexErrorRests }

InitLexErrors ==
  /\ file \in LexErrorSources
  /\ \E i \in 1..Len(Ctxs) : data = Ctxs[i]
  /\ InitCompiler

SpecLexErrors == InitLexErrors /\ [][Next]_vars

\* the diagnostics of the scanner for the text buf
LexLogged(buf) == scanTokens(buf, [logged |-> <<>>, hadErrors |-> FALSE]).compiler.logged

HasBad == \E i \in 1..Len(file) : file[i] \in BadChars
\* the first character the scanner reports
BadAt ==
  CHOOSE i \in 1..Len(file) : file[i] \in BadChars /\ \A j \in 1..(i - 1) : file[j] \notin BadChars
\* the file with that character replaced by a space
Blanked == [file EXCEPT ![BadAt] = " "]

\* the scanner consumed the reported character and nothing more: the tokens
\* are those of the file with a space in its place, and so are the diagnostics
\* after the first
ResumesAtNextCharacter ==
  /\ tokens = scanTokens(Blanked, [logged |-> <<>>, hadErrors |-> FALSE]).tokens
  /\ LexLogged(file) # <<>>
  /\ LexLogged(file)[1].line = LineAt(file, BadAt)
  /\ Tail(LexLogged(file)) = LexLogged(Blanked)

\* C24: a lexical error consumes only the offending character: the later
\* lexical errors are all reported, the tokens after it on its line are all
\* emitted, the "}}" right after it included, and the region ends with its line
LexErrorConsumesOffender == (pc = "compiled" /\ HasBad) => ResumesAtNextCharacter

\* the same for the characters outside the token alphabet
UnexpectedConsumesOffender ==
  (pc = "compiled" /\ HasBad /\ file[BadAt] = "#") => ResumesAtNextCharacter

\* {{ a =}} was scanned without a CLOSE_EXPR token
CloseAfterErrorIsLostWitness ==
  /\ pc = "compiled"
  /\ file = OPEN \o <<" ", "a", " ", "=">> \o CLOSE
  /\ Len(tokens) = 3
  /\ tokens[2].type = "IDENTIFIER"
  /\ tokens[3].type = "EOF"

\* {{ a =#}}: the "#" after the "=" was not reported
LaterErrorIsLostWitness ==
  /\ pc = "compiled"
  /\ file = OPEN \o <<" ", "a", " ", "=", "#">> \o CLOSE
  /\ LexLogged(file) = <<[message |-> "Expected character \"=\"", line |-> 1, col |-> <<7>>]>>
  /\ Len(LexLogged(Blanked)) = 1

\* {{ a ##}} was scanned to both diagnostics and the CLOSE_EXPR token
UnexpectedConsumesOffenderWitness ==
  /\ pc = "compiled"
  /\ file = OPEN \o <<" ", "a", " ", "#", "#">> \o CLOSE
  /\ Len(LexLogged(file)) = 2
  /\ tokens[3].type = "CLOSE_EXPR"

(***************************************************************************)
(* SpecSpaces: expression regions with runs of spaces and tabs between     *)
(* their tokens                                                            *)
(***************************************************************************)
TAB == "\t"
Whitespace == {" ", TAB}

\* bound on the length of a run of whitespace
MaxRun == 2
Runs == SeqsUpTo(Whitespace, MaxRun)

\* the token texts of a region, to be joined by whitespace
SpacedTokens ==
  << <<OPEN, <<"a">>, <<".">>, <<"b">>, <<"[">>, <<"0">>, <<"]">>, CLOSE>>,
     <<OPEN, <<"i", "f">>, <<"(">>, <<"!">>, <<"a">>, <<">", "=">>, <<"7">>, <<"&", "&">>,
       <<"b">>, <<")">>, CLOSE>>,
     <<OPEN, <<"f", "o", "r">>, <<"(">>, <<"x">>, <<"i", "n">>, kItems, <<")">>, CLOSE>> >>

RECURSIVE Spaced(_, _, _, _)
\* the texts ts joined, the gap after the g-th text filled with the run r and
\* every other gap with the run o
Spaced(ts, g, r, o) ==
  IF Len(ts) = 1 THEN ts[1]
  ELSE ts[1] \o (IF g = 1 THEN r ELSE o) \o Spaced(Tail(ts), g - 1, r, o)

SpacedSources ==
  { Spaced(SpacedTokens[n], g, r, <<" ">>) \o <<"z">> :
      n \in 1..Len(SpacedTokens), g \in 1..10, r \in Runs }
    \cup { Spaced(SpacedTokens[n], 0, <<>>, r) : n \in 1..Len(SpacedTokens), r \in Runs }

InitSpaces ==
  /\ file \in SpacedSources
  /\ \E i \in 1..Len(Ctxs) : data = Ctxs[i]
  /\ InitCompiler

SpecSpaces == InitSpaces /\ [][Next]_vars

RECURSIVE Squeezed(_)
\* s with every run of whitespace replaced by a single space
Squeezed(s) ==
  IF s = <<>> THEN <<>>
  ELSE IF Head(s) \notin Whitespace THEN <<Head(s)>> \o Squeezed(Tail(s))
  ELSE IF Len(s) > 1 /\ s[2] \in Whitespace THEN Squeezed(Tail(s))
  ELSE <<" ">> \o Squeezed(Tail(s))

RECURSIVE Stripped(_)
\* s with its whitespace removed
Stripped(s) ==
  IF s = <<>> THEN <<>>
  ELSE IF Head(s) \in Whitespace THEN Stripped(Tail(s))
  ELSE <<Head(s)>> \o Stripped(Tail(s))

\* two characters that scan differently side by side than apart
Joins(a, b) ==
  \/ IsIdentChar(a) /\ IsIdentChar(b)
  \/ a \in {"!", "=", ">", "<"} /\ b = "="
  \/ a = b /\ a \in {"&", "|", "{", "}"}

\* some run of whitespace of s keeps such characters apart
SeparatesJoining(s) ==
  \E i, j \in 1..Len(s) :
    /\ i + 1 < j
    /\ \A k \in (i + 1)..(j - 1) : s[k] \in Whitespace
    /\ Joins(s[i], s[j])

\* the kinds and lexemes of the tokens scanned from the text buf
Kinds(buf) ==
  [i \in 1..Len(scanTokens(buf, [logged |-> <<>>, hadErrors |-> FALSE]).tokens) |->
     <<scanTokens(buf, [logged |-> <<>>, hadErrors |-> FALSE]).tokens[i].type,
       scanTokens(buf, [logged |-> <<>>, hadErrors |-> FALSE]).tokens[i].lexeme>>]

WhitespaceSkipped ==
  /\ LexLogged(file) = <<>>
  /\ [i \in 1..Len(tokens) |-> <<tokens[i].type, tokens[i].lexeme>>] = Kinds(Squeezed(file))
  /\ ~SeparatesJoining(file) => Kinds(file) = Kinds(Stripped(file))

\* C25: a run of spaces and tabs between the tokens of a region yields no
\* token and no diagnostic, and the kinds and lexemes of the tokens are those
\* of the region with the run replaced by one space, or removed
WhitespaceIsInsignificant == pc = "compiled" => WhitespaceSkipped

\* the same for runs of spaces only
SpacesAreInsignificant ==
  (pc = "compiled" /\ \A i \in 1..Len(file) : file[i] # TAB) => WhitespaceSkipped

\* {{ a, a tab, .b[0]}}z: the tab is reported as an unexpected character
TabIsReportedWitness ==
  /\ pc = "compiled"
  /\ file = OPEN \o <<" ", "a", TAB, ".", " ", "b", " ", "[", " ", "0", " ", "]", " ">>
              \o CLOSE \o <<"z">>
  /\ logged = <<[message |-> "Unexpected character", line |-> 1, col |-> <<5>>]>>
  /\ view = NoView

\* {{  a  .  b  [  0  ]  }} was scanned to the nine tokens of {{a.b[0]}} and
\* rendered
SpacesAreInsignificantWitness ==
  /\ calls > 0
  /\ file = Spaced(SpacedTokens[1], 0, <<>>, <<" ", " ">>)
  /\ Len(tokens) = 9
  /\ tokens[2] = [type |-> "IDENTIFIER", lexeme |-> <<"a">>, line |-> 1, col |-> <<5, 6>>]
  /\ logged = <<>>

(***************************************************************************)
(* SpecPositions: well-formed regions and literal text on several lines    *)
(***************************************************************************)
PositionPieces ==
  { <<"a">>, <<NL>>, <<" ">>,
    OPEN \o <<" ", "x", ".", "y", " ">> \o CLOSE,
    OPEN \o <<"i", "f", "(", "x", " ", ">", "=", " ", "1", "7", ")">> \o CLOSE,
    OPEN \o <<"e", "n", "d", "i", "f">> \o CLOSE,
    OPEN \o <<" ", QUOTE, "s", QUOTE, " ">> \o CLOSE }

\* bound on the number of pieces of a template
MaxPositionPieces == 3

PositionSources == {Flatten(ss) : ss \in SeqsUpTo(PositionPieces, MaxPositionPieces)}

InitPositions ==
  /\ file \in PositionSources
  /\ \E i \in 1..Len(Ctxs) : data = Ctxs[i]
  /\ InitCompiler

SpecPositions == InitPositions /\ [][Next]_vars

\* the number of source characters of the i-th token
TokenWidth(i) == Len(tokens[i].lexeme) + (IF tokens[i].type = "STRING" THEN 2 ELSE 0)

\* the first index from p on that holds no space
SkipSpaces(p) ==
  CHOOSE q \in p..(Len(file) + 1) :
    /\ q <= Len(file) => file[q] # " "
    /\ \A k \in p..(q - 1) : file[k] = " "

RECURSIVE TokenStart(_)
\* the index in the file of the first character of the i-th token: the tokens
\* follow one another, with only spaces skipped before a token of a region
TokenStart(i) ==
  IF i = 1 THEN 1
  ELSE IF tokens[i].type = "LITERAL" THEN TokenStart(i - 1) + TokenWidth(i - 1)
  ELSE SkipSpaces(TokenStart(i - 1) + TokenWidth(i - 1))

HasNewline(i) == \E k \in 1..Len(tokens[i].lexeme) : tokens[i].lexeme[k] = NL

\* the i-th token carries the line of its first character and the columns of
\* its characters on that line
PositionOfFirst(i) ==
  /\ tokens[i].line = LineAt(file, TokenStart(i))
  /\ tokens[i].col[1] = ColAt(file, TokenStart(i))
  /\ (tokens[i].type # "LITERAL" \/ ~HasNewline(i)) =>
       tokens[i].col[2] - tokens[i].col[1] = TokenWidth(i)

\* the i-th token carries the line and the column the scanner stood at after
\* its last character, and column 1 as its start
PositionOfEnd(i) ==
  /\ tokens[i].line = LineAt(file, TokenStart(i) + TokenWidth(i))
  /\ tokens[i].col = <<1, ColAt(file, TokenStart(i) + TokenWidth(i))>>

\* C26: every token records the line of its first character and the 1-based
\* columns [start, end) of its characters on that line; a token of a region
\* spans as many columns as it has characters
TokensRecordFirstLine ==
  pc = "compiled" => \A i \in 1..Len(tokens) : PositionOfFirst(i)

\* what the tokens do record: a token that holds no newline its line and its
\* columns, a literal that holds one the line it ends on
TokensRecordLineOfEnd ==
  pc = "compiled" =>
    \A i \in 1..Len(tokens) : IF HasNewline(i) THEN PositionOfEnd(i) ELSE PositionOfFirst(i)

\* the text a, newline, a is one LITERAL token recorded on line 2
LiteralOnLastLineWitness ==
  /\ pc = "compiled"
  /\ file = <<"a", NL, "a">>
  /\ tokens[1] = [type |-> "LITERAL", lexeme |-> <<"a", NL, "a">>, line |-> 2, col |-> <<1, 2>>]

\* a region on the second line, after text: its tokens carry line 2
RegionOnSecondLineWitness ==
  /\ pc = "compiled"
  /\ file = <<"a", NL>> \o OPEN \o <<" ", "x", ".", "y", " ">> \o CLOSE
  /\ tokens[3] = [type |-> "IDENTIFIER", lexeme |-> <<"x">>, line |-> 2, col |-> <<4, 5>>]

(***************************************************************************)
(* The Literal nodes of a text without expression regions (SpecLiteral)    *)
(***************************************************************************)
RECURSIVE Contents(_)
\* the contents of the Literal nodes stmts, one after another
Contents(stmts) ==
  IF stmts = <<>> THEN <<>> ELSE stmts[1].contents \o Contents(Tail(stmts))

\* C27: a run of text outside expression regions becomes exactly one LITERAL
\* token and one Literal node that holds the run verbatim, isolated "{"
\* included, so that no two Literal nodes are adjacent
LiteralRunIsOneNode ==
  (pc = "compiled" /\ file # <<>>) =>
    /\ Len(tokens) = 2
    /\ tokens[1].type = "LITERAL"
    /\ tokens[1].lexeme = file
    /\ statements = <<[type |-> "LITERAL", contents |-> file]>>

\* what the run becomes: Literal nodes that hold the run between them, a new
\* one starting at every "{" after the first character
LiteralRunSplitsAtBraces ==
  (pc = "compiled" /\ file # <<>>) =>
    /\ \A i \in 1..Len(statements) : statements[i].type = "LITERAL"
    /\ Contents(statements) = file
    /\ Len(statements) = 1 + Cardinality({i \in 2..Len(file) : file[i] = "{"})
    /\ \A i \in 2..Len(statements) : statements[i].contents[1] = "{"
    /\ Len(tokens) = Len(statements) + 1

\* a{a was parsed to the two Literal nodes a and {a
AdjacentLiteralsWitness ==
  /\ pc = "compiled"
  /\ file = <<"a", "{", "a">>
  /\ statements = <<[type |-> "LITERAL", contents |-> <<"a">>],
                    [type |-> "LITERAL", contents |-> <<"{", "a">>]>>

\* a text without "{" was parsed to one Literal node
OneLiteralWitness ==
  /\ pc = "compiled"
  /\ file = <<"a", NL, "}", "a">>
  /\ statements = <<[type |-> "LITERAL", contents |-> file]>>

(***************************************************************************)
(* SpecNested: grammar-conformant templates of If and For statements       *)
(* nested in one another                                                   *)
(***************************************************************************)
\* bound on the depth of nesting
MaxDepth == 3

LiteralA == [type |-> "LITERAL", contents |-> <<"a">>]
VarX == [type |-> "VAR", keys |-> <<kX>>]
\* the condition foo, as the parser builds it
CondFoo ==
  parse(scanTokens(OPEN \o <<"i", "f", "(">> \o kFoo \o <<")">> \o CLOSE
                     \o OPEN \o <<"e", "n", "d", "i", "f">> \o CLOSE,
                   [logged |-> <<>>, hadErrors |-> FALSE]).tokens,
        [logged |-> <<>>, hadErrors |-> FALSE]).nodes[1].condition
IfFoo(body) == [type |-> "IF", condition |-> CondFoo, nodes |-> body]
ForXInItems(body) ==
  [type |-> "FOR", arrayVar |-> [type |-> "VAR", keys |-> <<kItems>>], itemName |-> kX,
   nodes |-> body]

\* the bodies over the statements S: empty, one statement, the text a before
\* a statement, and a statement before an empty If (after a For, a For over
\* the text a)
NestedBodies(S) ==
  {<<>>} \cup { <<st>> : st \in S }
         \cup { <<LiteralA, st>> : st \in S \ {LiteralA} }
         \cup { <<st, IF st.type = "IF" THEN ForXInItems(<<LiteralA>>) ELSE IfFoo(<<>>)>> :
                  st \in S }

RECURSIVE NestedStatements(_)
\* the statements with at most depth openers around one another
NestedStatements(depth) ==
  IF depth = 0 THEN {LiteralA, VarX}
  ELSE {LiteralA, VarX}
         \cup { IfFoo(b) : b \in NestedBodies(NestedStatements(depth - 1)) }
         \cup { ForXInItems(b) : b \in NestedBodies(NestedStatements(depth - 1)) }

RECURSIVE Unparsed(_)
\* the source text of the statements stmts
Unparsed(stmts) ==
  IF stmts = <<>> THEN <<>>
  ELSE (CASE stmts[1].type = "LITERAL" -> stmts[1].contents
          [] stmts[1].type = "VAR" -> OPEN \o stmts[1].keys[1] \o CLOSE
          [] stmts[1].type = "IF" ->
               OPEN \o <<"i", "f", "(">> \o kFoo \o <<")">> \o CLOSE
                 \o Unparsed(stmts[1].nodes) \o OPEN \o <<"e", "n", "d", "i", "f">> \o CLOSE
          [] stmts[1].type = "FOR" ->
               OPEN \o <<"f", "o", "r", "(">> \o stmts[1].itemName \o <<" ", "i", "n", " ">>
                 \o stmts[1].arrayVar.keys[1] \o <<")">> \o CLOSE
                 \o Unparsed(stmts[1].nodes)
                 \o OPEN \o <<"e", "n", "d", "f", "o", "r">> \o CLOSE)
       \o Unparsed(Tail(stmts))

NestedTemplates == NestedBodies(NestedStatements(MaxDepth))
NestedSources == { Unparsed(b) : b \in NestedTemplates }

InitNested ==
  /\ file \in NestedSources
  /\ \E i \in 2..Len(Ctxs) : data = Ctxs[i]
  /\ InitCompiler

SpecNested == InitNested /\ [][Next]_vars

\* C28: a grammar-conformant template of nested If and For statements is
\* compiled without a diagnostic to the statements it was written from: every
\* opener is paired with the closer that balances it and every body holds
\* the statements between its header and that closer, the empty body included
NestedBodiesAreClosed ==
  pc = "compiled" =>
    /\ logged = <<>>
    /\ view.type = "view"
    /\ statements \in NestedTemplates
    /\ Unparsed(statements) = file

\* {{if(foo)}}{{for(x in items)}}{{if(foo)}}{{endif}}{{endfor}}{{if(foo)}}{{endif}}{{endif}}
\* was rendered: an If with an empty body in a For in an If, before another If
NestedBodiesAreClosedWitness ==
  /\ calls > 0
  /\ statements = <<IfFoo(<<ForXInItems(<<IfFoo(<<>>)>>), IfFoo(<<>>)>>)>>
  /\ Len(tokens) = 39
  /\ logged = <<>>

(***************************************************************************)
(* SpecScan: every sequence of a few pieces of template text, in any       *)
(* order, well-formed or not                                               *)
(***************************************************************************)
ScanPieces ==
  { OPEN, CLOSE, <<"i", "f", "(">>, <<"f", "o", "r", "(", "x", " ", "i", "n", " ">>,
    <<"e", "n", "d", "i", "f">>, <<"e", "n", "d", "f", "o", "r">>, <<"x">>, <<"1">>, <<")">>,
    <<"!">>, <<"=">>, <<QUOTE>>, <<NL>>, <<".">> }

\* bound on the number of pieces of a template
MaxScan == 3

ScanSources == {Flatten(ss) : ss \in SeqsUpTo(ScanPieces, MaxScan)}

InitScan ==
  /\ file \in ScanSources
  /\ data = Ctxs[2]
  /\ InitCompiler

SpecScan == InitScan /\ [][Next]_vars

ConditionMissing(ctx) == OperandDiagnostics(4, CondEnd, ctx) # <<>>

\* the If emitted nothing, and the operands that do not resolve were logged
DegradesToEmpty ==
  /\ ~result.raised
  /\ result.out = <<"z">>
  /\ result.log = OperandDiagnostics(4, CondEnd, data)

\* C30: when a variable of the condition does not resolve, alone, negated or
\* as an operand of a binary operator, the failure is logged, the If emits
\* the empty text and its body is not rendered
MissingOperandEmitsNothing == (calls > 0 /\ ConditionMissing(data)) => DegradesToEmpty

\* the same for a condition that is the variable alone
MissingAloneEmitsNothing ==
  (calls > 0 /\ ConditionMissing(data) /\ CondIsUnary /\ ~CondNegated) => DegradesToEmpty

\* the failure is logged first, whatever the If emits
MissingOperandIsLogged ==
  (calls > 0 /\ ConditionMissing(data)) =>
    /\ ~result.raised
    /\ SubSeq(result.log, 1, Len(OperandDiagnostics(4, CondEnd, data)))
         = OperandDiagnostics(4, CondEnd, data)

\* if(!m) was rendered with a context without m: the body was emitted
NegatedMissingRendersBodyWitness ==
  /\ calls > 0
  /\ CondIsUnary
  /\ CondNegated
  /\ CondOperand.lexeme = kM
  /\ data = ABC(Bool(TRUE), Bool(TRUE), Bool(TRUE))
  /\ result.out = OkText \o <<"t", "r", "u", "e", "z">>
  /\ result.log = <<[kind |-> "is_undefined", key |-> kM, path |-> kM]>>

\* if(a != b) was rendered with a context that holds a and not b: the body
\* was emitted
MissingOperandRendersBodyWitness ==
  /\ calls > 0
  /\ Len(tokens) > 7
  /\ CondEnd = 7
  /\ <<tokens[4].lexeme, tokens[5].type, tokens[6].lexeme>> = <<kA, "BANG_EQUAL", kB>>
  /\ data = Obj(1, (kA :> Bool(TRUE)))
  /\ result.out = OkText \o <<"t", "r", "u", "e", "z">>

\* if(m) was rendered with a context without m: nothing was emitted
MissingAloneEmitsNothingWitness ==
  /\ calls > 0
  /\ CondIsUnary
  /\ ~CondNegated
  /\ CondOperand.lexeme = kM
  /\ data = ABC(Bool(TRUE), Bool(TRUE), Bool(TRUE))
  /\ result.out = <<"z">>

=============================================================================
